---- MODULE Spec2Model ----
(***************************************************************************)
(* A model of the webscraping xpath engine (src/xpath.py) and of the       *)
(* helpers of src/common.py it calls.                                      *)
(*                                                                         *)
(* A Python string is a sequence of one-character strings, so that every   *)
(* regular expression of the source is modelled by what it matches,        *)
(* character by character.  Python's 0-based half-open slices s[a:b] are   *)
(* SubSeq(s, a+1, b); positions below are 1-based.                         *)
(***************************************************************************)
EXTENDS Integers, Sequences, FiniteSets, TLC

VARIABLES
    \* search(html, xpath)
    html,               \* the markup after clean_html
    xpath,              \* the query string
    tokens,             \* re.findall of xpath_iter over the query
    tag_i,              \* number of steps of xpath_iter consumed so far
    contexts,           \* the working list of fragments
    parent_attributes,  \* attribute dicts of the elements matched last
    status,             \* "start" | "running" | "returned" | "raised"
    error,              \* the message of the exception raised, or <<>>
    last,               \* history: the kind of the step executed last
    prev_contexts,      \* history: contexts before the step executed last
    prev_attributes,    \* history: parent_attributes before that step
    \* find_children(html, tag) and find_descendants(html, tag)
    fc_items,           \* history: the top-level items html was written from
    fc_fn,              \* "find_children" | "find_descendants"
    fc_text,            \* the argument html
    fc_tag,             \* the argument tag
    fc_html,            \* the local html: what remains to scan
    results,            \* the list of fragments collected
    found,              \* the loop flag of find_children
    fc_status,          \* "running" | "returned" | "raised"
    \* match_attributes(desired_attributes, available_attributes)
    desired_attributes,
    available_attributes,
    ma_i,               \* number of filters examined
    ma_result,          \* "running" | "True" | "False"
    \* get_links(html, url, local, external)
    gl_html,            \* the argument html
    url,
    local,
    external,
    candidates,         \* a_links + js_links
    gl_i,               \* number of candidates consumed
    links,              \* the result list
    gl_status,          \* "start" | "running" | "returned" | "raised"
    \* xpath_iter(xpath)
    xi_segments,        \* history: the path segments the query was written from
    xi_xpath,           \* the argument xpath
    xi_tokens,          \* the list re.findall returned
    xi_i,               \* number of its (separator, token) pairs consumed
    steps,              \* the steps yielded so far
    xi_status,          \* "start" | "running" | "exhausted" | "raised"
    \* split_tag(html)
    sp_pieces,          \* history: the pieces the text was written from
    sp_html,            \* the argument html
    sp_tag,             \* tag, as formatted into the regex
    sp_from,            \* the position finditer resumes at
    sp_depth,           \* depth: how far nested
    sp_result,          \* the pair returned
    sp_status,          \* "start" | "running" | "returned"
    \* jump_next_tag(html)
    jn_html,            \* html
    jn_result,          \* the value returned
    jn_status           \* "running" | "returned"

searchVars ==
    <<html, xpath, tokens, tag_i, contexts, parent_attributes, status, error, last,
      prev_contexts, prev_attributes>>
childrenVars ==
    <<fc_items, fc_fn, fc_text, fc_tag, fc_html, results, found, fc_status>>
matchVars == <<desired_attributes, available_attributes, ma_i, ma_result>>
linksVars == <<gl_html, url, local, external, candidates, gl_i, links, gl_status>>
iterVars == <<xi_segments, xi_xpath, xi_tokens, xi_i, steps, xi_status>>
\* the variables of the calls of the helper functions
splitVars == <<sp_pieces, sp_html, sp_tag, sp_from, sp_depth, sp_result, sp_status>>
jumpVars == <<jn_html, jn_result, jn_status>>
helperVars == <<iterVars, splitVars, jumpVars>>
vars == <<searchVars, childrenVars, matchVars, linksVars, helperVars>>

---------------------------------------------------------------------------
(* Characters and strings *)

LowerLetters ==
    <<"a","b","c","d","e","f","g","h","i","j","k","l","m",
      "n","o","p","q","r","s","t","u","v","w","x","y","z">>

UpperLetters ==
    <<"A","B","C","D","E","F","G","H","I","J","K","L","M",
      "N","O","P","Q","R","S","T","U","V","W","X","Y","Z">>

DigitChars == <<"0","1","2","3","4","5","6","7","8","9">>

Range(s) == {s[i] : i \in DOMAIN s}

Min(S) == CHOOSE x \in S : \A y \in S : x <= y

Max(S) == CHOOSE x \in S : \A y \in S : x >= y

\* the least position of S, or 0 when there is none: the start of the
\* leftmost match of a regular expression
MinOrZero(S) == IF S = {} THEN 0 ELSE Min(S)

UpperSet == Range(UpperLetters)

DigitSet == Range(DigitChars)

WordSet == Range(LowerLetters) \cup Range(UpperLetters) \cup Range(DigitChars) \cup {"_"}

\* str.lower() on one character
Lower(c) ==
    IF c \in UpperSet
    THEN LowerLetters[CHOOSE i \in DOMAIN UpperLetters : UpperLetters[i] = c]
    ELSE c

\* str.lower()
LowerStr(s) == [i \in 1..Len(s) |-> Lower(s[i])]

IsDigit(c) == c \in DigitSet

\* the regular expression class \w
IsWord(c) == c \in WordSet

\* s[n:]
Drop(s, n) == SubSeq(s, n + 1, Len(s))

\* s[:n]
Take(s, n) == SubSeq(s, 1, n)

\* w occurs in s at position p
StartsWithAt(s, p, w) ==
    /\ p >= 1
    /\ p + Len(w) - 1 <= Len(s)
    /\ \A k \in 1..Len(w) : s[p + k - 1] = w[k]

\* w occurs in s at position p, letter case ignored (re.IGNORECASE)
StartsWithAtI(s, p, w) ==
    /\ p >= 1
    /\ p + Len(w) - 1 <= Len(s)
    /\ \A k \in 1..Len(w) : Lower(s[p + k - 1]) = Lower(w[k])

\* the first position >= from at which w occurs in s, or 0
IndexFrom(s, w, from) == MinOrZero({p \in from..Len(s) : StartsWithAt(s, p, w)})

\* the last position of the maximal run of \w characters that starts at p
WordRunEnd(s, p) ==
    Max({e \in p..Len(s) : \A k \in p..e : IsWord(s[k])})

\* Python's None, told apart from every string
None == <<"None">>

RECURSIVE Concat(_)
\* ''.join(list)
Concat(list) == IF list = <<>> THEN <<>> ELSE Head(list) \o Concat(Tail(list))

---------------------------------------------------------------------------
(* The tag scanner: jump_next_tag, get_tag, split_tag *)

\* tags that do not contain content and so can be safely skipped
EMPTY_TAGS == {<<"b","r">>, <<"h","r">>}

\* tag_regex = '<(\w+)' matches at position p
TagRegexAt(s, p) == p < Len(s) /\ s[p] = "<" /\ IsWord(s[p + 1])

\* tag_regex.search(s): the start of the leftmost match, or 0
TagRegexSearch(s) == MinOrZero({p \in 1..Len(s) : TagRegexAt(s, p)})

RECURSIVE jump_next_tag(_)

\* the body of the loop of jump_next_tag for the match at p (0: no match)
JumpMatch(h, p) ==
    IF p = 0 THEN None
    ELSE IF LowerStr(SubSeq(h, p + 1, WordRunEnd(h, p + 1))) \in EMPTY_TAGS
    THEN jump_next_tag(Drop(h, WordRunEnd(h, p + 1)))
    ELSE Drop(h, p - 1)

jump_next_tag(h) == JumpMatch(h, TagRegexSearch(h))

get_tag(h) ==
    IF TagRegexAt(h, 1) THEN SubSeq(h, 2, WordRunEnd(h, 2)) ELSE None

\* '</?%s.*?>' % tag with re.DOTALL | re.IGNORECASE matches at position p:
\* the position of the closing '>' of the match, or 0
SplitRegexEndAt(h, tag, p) ==
    IF p < 1 \/ p > Len(h) \/ h[p] # "<" THEN 0
    ELSE IF p < Len(h) /\ h[p + 1] = "/"
    THEN (IF StartsWithAtI(h, p + 2, tag)
          THEN IndexFrom(h, <<">">>, p + 2 + Len(tag)) ELSE 0)
    ELSE (IF StartsWithAtI(h, p + 1, tag)
          THEN IndexFrom(h, <<">">>, p + 1 + Len(tag)) ELSE 0)

\* the start of the leftmost match at or after position from, or 0
SplitRegexNext(h, tag, from) ==
    MinOrZero({p \in from..Len(h) : SplitRegexEndAt(h, tag, p) # 0})

\* the depth after the match from s to e
SplitDepth(h, s, e, depth) ==
    IF h[s + 1] = "/" THEN depth - 1
    ELSE IF h[e - 1] = "/" THEN depth
    ELSE depth + 1

RECURSIVE SplitLoop(_, _, _, _)

\* the body of the for loop of split_tag for the match that starts at s
\* (0: the matches are exhausted)
SplitMatch(h, tag, s, depth) ==
    LET e == SplitRegexEndAt(h, tag, s)
    IN  IF s = 0 THEN <<h \o <<"<", "/">> \o tag \o <<">">>, <<>> >>
        ELSE IF SplitDepth(h, s, e, depth) = 0 THEN <<Take(h, e), Drop(h, e)>>
        ELSE SplitLoop(h, tag, e + 1, SplitDepth(h, s, e, depth))

\* the for loop of split_tag over finditer, resumed at position from
SplitLoop(h, tag, from, depth) ==
    SplitMatch(h, tag, SplitRegexNext(h, tag, from), depth)

\* '%s' % tag
FormatTag(tag) == IF tag = None THEN <<"N", "o", "n", "e">> ELSE tag

\* split_tag(html) = (tag_html, rest)
split_tag(h) == SplitLoop(h, FormatTag(get_tag(h)), 1, 0)

---------------------------------------------------------------------------
(* find_children, find_descendants *)

\* a variant of ChildrenSplit that continues on the text it has split and
\* not on the remainder.  C16 fails of it
ChildrenSplitAgain(st, tag, res) ==
    [html |-> st[1] \o st[2], results |-> res, found |-> st[1] # <<>>]

\* the rest of a pass of the while loop of find_children, after
\* tag_html, html = split_tag(html)
ChildrenSplit(st, tag, res) ==
    IF st[1] # <<>>
    THEN [html |-> st[2],
          results |-> IF LowerStr(tag) = <<"*">>
                         \/ LowerStr(tag) = LowerStr(get_tag(st[1]))
                      THEN Append(res, st[1]) ELSE res,
          found |-> TRUE]
    ELSE [html |-> st[2], results |-> res, found |-> FALSE]

\* one pass of the while loop of find_children on (html, results): the new
\* html, results and found
ChildrenPass(h, tag, res) ==
    LET j == jump_next_tag(h)
    IN  IF j # None /\ j # <<>>
        THEN ChildrenSplit(split_tag(j), tag, res)
        ELSE [html |-> j, results |-> res, found |-> FALSE]

RECURSIVE ChildrenLoop(_, _, _)

\* the while loop of find_children, entered with (html, results)
ChildrenLoop(h, tag, res) ==
    LET n == ChildrenPass(h, tag, res)
    IN  IF n.found THEN ChildrenLoop(n.html, tag, n.results) ELSE n.results

find_children(h, tag) == ChildrenLoop(h, tag, <<>>)

\* the starts of the matches of '<%s' % tag (re.IGNORECASE) in h; the tags
\* of this model hold word characters only
DescendantStarts(h, tag) ==
    {p \in 1..Len(h) : StartsWithAtI(h, p, <<"<">> \o tag)}

RECURSIVE DescendantLoop(_, _, _)

\* the for loop of find_descendants over the matches from position from on
DescendantLoop(h, tag, from) ==
    LET p == MinOrZero({q \in DescendantStarts(h, tag) : q >= from})
    IN  IF p = 0 THEN <<>>
        ELSE <<split_tag(Drop(h, p - 1))[1]>> \o DescendantLoop(h, tag, p + 1)

\* find_descendants(html, tag) for tag # '*' (for '*' it raises XPathException)
find_descendants(h, tag) == DescendantLoop(h, tag, 1)

---------------------------------------------------------------------------
(* get_content, get_attributes *)

\* content_regex = '<.*?>(.*)</.*?>$' with re.DOTALL, matched at the start;
\* default ''. The lazy '<.*?>' ends at the first '>', at position i; the
\* greedy '(.*)' ends before the last '</' after it, those of J
get_content(h) ==
    LET i == IF h # <<>> /\ h[1] = "<" THEN IndexFrom(h, <<">">>, 2) ELSE 0
        J == {j \in (i + 1)..(Len(h) - 2) : StartsWithAt(h, j, <<"<", "/">>)}
    IN  IF i # 0 /\ J # {} /\ h[Len(h)] = ">"
        THEN SubSeq(h, i + 1, Max(J) - 1)
        ELSE <<>>

\* the class [\w-]
IsNameChar(c) == IsWord(c) \/ c = "-"

NameRunEnd(s, p) ==
    Max({e \in p..Len(s) : \A k \in p..e : IsNameChar(s[k])})

\* the value alternative ".*?"|'.*?'|\w+ matched at position v: its last
\* position, or 0
AttrValueEnd(s, v) ==
    IF v > Len(s) THEN 0
    ELSE IF s[v] = "\"" THEN IndexFrom(s, <<"\"">>, v + 1)
    ELSE IF s[v] = "'" THEN IndexFrom(s, <<"'">>, v + 1)
    ELSE IF IsWord(s[v]) THEN WordRunEnd(s, v)
    ELSE 0

\* attributes_regex = '([\w-]+)=(".*?"|\'.*?\'|\w+)' matched at position
\* p, the name ending at q: <<first of value, last of value>>, or <<>>
AttrRegexAt(s, p) ==
    IF p > Len(s) \/ ~IsNameChar(s[p]) THEN <<>>
    ELSE LET q == NameRunEnd(s, p)
         IN  IF q < Len(s) /\ s[q + 1] = "=" /\ AttrValueEnd(s, q + 2) # 0
             THEN <<q + 2, AttrValueEnd(s, q + 2)>>
             ELSE <<>>

\* str.strip(chars): s less its characters before and after those of
\* positions K
Strip(s, chars) ==
    LET K == {k \in 1..Len(s) : s[k] \notin chars}
    IN  IF K = {} THEN <<>> ELSE SubSeq(s, Min(K), Max(K))

RECURSIVE AttrFindAll(_, _)

\* attributes_regex.findall(s) from position from on, as the list of the
\* pairs (name.lower().strip(), value.strip('\'" ')): the pair of the
\* leftmost match, at p with its value spanning m, then the later pairs.
\* The names hold no white space, so their strip() changes nothing
AttrFindAll(s, from) ==
    LET p == MinOrZero({k \in from..Len(s) : AttrRegexAt(s, k) # <<>>})
        m == AttrRegexAt(s, p)
    IN  IF p = 0 THEN <<>>
        ELSE << <<LowerStr(SubSeq(s, p, m[1] - 2)),
                  Strip(SubSeq(s, m[1], m[2]), {"'", "\"", " "})>> >>
             \o AttrFindAll(s, m[2] + 1)

\* dict(pairs): a later pair of the same name replaces an earlier one
Dict(pairs) ==
    [n \in {pairs[i][1] : i \in DOMAIN pairs} |->
        pairs[Max({i \in DOMAIN pairs : pairs[i][1] = n})][2]]

\* get_attributes(html): the attributes of html[:html.index('>')] when '>'
\* is in html, at position gt
get_attributes(h) ==
    LET gt == IndexFrom(h, <<">">>, 1)
    IN  Dict(AttrFindAll(IF gt # 0 THEN Take(h, gt - 1) ELSE h, 1))

\* dict.get(name, '')
DictGet(d, name) == IF name \in DOMAIN d THEN d[name] ELSE <<>>

---------------------------------------------------------------------------
(* xpath_iter *)

\* the last position of the maximal run of characters other than c that
\* starts at p
RunEndNot(s, p, c) ==
    Max({e \in p..Len(s) : \A k \in p..e : s[k] # c})

\* '(|/|\.\.)/([^/]+)' matched at position p, its alternatives tried in
\* order: <<separator, first of token, last of token>>, or <<>>
StepRegexAt(x, p) ==
    IF p + 1 <= Len(x) /\ x[p] = "/" /\ x[p + 1] # "/"
    THEN << <<>>, p + 1, RunEndNot(x, p + 1, "/")>>
    ELSE IF p + 2 <= Len(x) /\ x[p] = "/" /\ x[p + 1] = "/" /\ x[p + 2] # "/"
    THEN << <<"/">>, p + 2, RunEndNot(x, p + 2, "/")>>
    ELSE IF p + 3 <= Len(x) /\ StartsWithAt(x, p, <<".", ".", "/">>) /\ x[p + 3] # "/"
    THEN << <<".", ".">>, p + 3, RunEndNot(x, p + 3, "/")>>
    ELSE <<>>

RECURSIVE StepFindAll(_, _)

\* findall from position from on, as the list of <<separator, token>>: that
\* of the leftmost match m, at p, then those of the later matches
StepFindAll(x, from) ==
    LET p == MinOrZero({k \in from..Len(x) : StepRegexAt(x, k) # <<>>})
        m == StepRegexAt(x, p)
    IN  IF p = 0 THEN <<>>
        ELSE << <<m[1], SubSeq(x, m[2], m[3])>> >> \o StepFindAll(x, m[3] + 1)

RECURSIVE BracketFindAll(_, _)

\* re.compile('\[(.*?)\]').findall(token) from position from on: the group
\* of the leftmost match, from p to e, then those of the later matches
BracketFindAll(token, from) ==
    LET p == MinOrZero({k \in from..Len(token) :
                           token[k] = "[" /\ IndexFrom(token, <<"]">>, k + 1) # 0})
        e == IndexFrom(token, <<"]">>, p + 1)
    IN  IF p = 0 THEN <<>>
        ELSE <<SubSeq(token, p + 1, e - 1)>> \o BracketFindAll(token, e + 1)

DigitValue(c) == (CHOOSE i \in DOMAIN DigitChars : DigitChars[i] = c) - 1

RECURSIVE DigitsValue(_)
DigitsValue(ds) ==
    IF ds = <<>> THEN 0
    ELSE 10 * DigitsValue(Take(ds, Len(ds) - 1)) + DigitValue(ds[Len(ds)])

\* int(s): <<n>>, or <<>> for ValueError. White space is stripped and one
\* sign is accepted in front of the digits ds
IntParse(s) ==
    LET t == Strip(s, {" "})
        signed == t # <<>> /\ t[1] \in {"+", "-"}
        ds == IF signed THEN Tail(t) ELSE t
    IN  IF ds # <<>> /\ \A k \in DOMAIN ds : IsDigit(ds[k])
        THEN IF signed /\ t[1] = "-" THEN <<0 - DigitsValue(ds)>>
             ELSE <<DigitsValue(ds)>>
        ELSE <<>>

\* the value group: the text r after '=' less the quote the greedy ["\']?
\* takes in front and the one the final ["\']?$ takes at the end
FilterValue(r) ==
    IF r # <<>> /\ r[1] \in {"\"", "'"}
    THEN (IF Len(r) > 1 /\ r[Len(r)] \in {"\"", "'"}
          THEN SubSeq(r, 2, Len(r) - 1) ELSE Tail(r))
    ELSE (IF r # <<>> /\ r[Len(r)] \in {"\"", "'"}
          THEN Take(r, Len(r) - 1) ELSE r)

\* re.compile('@(.*?)=["\']?(.*?)["\']?$').search(attribute): <<key, value>>
\* for the first '@', at position at, and the first '=' after it, at
\* position eq, or <<>> when there is no match
FilterParse(a) ==
    LET at == IndexFrom(a, <<"@">>, 1)
        eq == IF at = 0 THEN 0 ELSE IndexFrom(a, <<"=">>, at + 1)
    IN  IF at = 0 \/ eq = 0 THEN <<>>
        ELSE <<SubSeq(a, at + 1, eq - 1), FilterValue(Drop(a, eq))>>

RECURSIVE BracketLoop(_, _, _)

\* the loop of xpath_iter over the brackets of one token, int(attribute)
\* being n for the first of them and the groups of the filter regex f
BracketLoop(brackets, index, attributes) ==
    IF brackets = <<>>
    THEN [raised |-> FALSE, index |-> index, attributes |-> attributes]
    ELSE LET n == IntParse(Head(brackets))
             f == FilterParse(Head(brackets))
         IN  IF n # <<>> THEN BracketLoop(Tail(brackets), n, attributes)
             ELSE IF f # <<>>
             THEN BracketLoop(Tail(brackets), index,
                              Append(attributes, <<LowerStr(f[1]), LowerStr(f[2])>>))
             ELSE [raised |-> TRUE, index |-> index, attributes |-> attributes,
                   message |-> <<"Unknown format: ">> \o Head(brackets)]

\* the body of the loop of xpath_iter for one <<separator, token>>, the
\* first '[' of the token being at lb: the step yielded (separator, tag,
\* index, attributes), or the exception raised.  index is <<>> for None,
\* <<n>> for n
StepOf(m) ==
    LET lb == IndexFrom(m[2], <<"[">>, 1)
        b == IF lb # 0 THEN BracketLoop(BracketFindAll(m[2], 1), <<>>, <<>>)
             ELSE [raised |-> FALSE, index |-> <<>>, attributes |-> <<>>]
    IN  IF b.raised THEN b
        ELSE [raised |-> FALSE, separator |-> m[1],
              tag |-> IF lb # 0 THEN Take(m[2], lb - 1) ELSE m[2],
              index |-> b.index, attributes |-> b.attributes]

---------------------------------------------------------------------------
(* match_attributes *)

\* the atom of pattern p at position i matches character c.  The patterns
\* of this model are built from literal characters, '.', '\d' and a
\* postfix '*'
AtomMatches(p, i, c) ==
    IF p[i] = "\\" /\ i < Len(p)
    THEN IF p[i + 1] = "d" THEN IsDigit(c) ELSE c = p[i + 1]
    ELSE IF p[i] = "." THEN c # "\n"
    ELSE Lower(c) = Lower(p[i])

\* the length of the atom of pattern p at position i
AtomWidth(p, i) == IF p[i] = "\\" /\ i < Len(p) THEN 2 ELSE 1

RECURSIVE ReMatchFrom(_, _, _, _)
\* p[i..] followed by '$' matches s from position j on (re.IGNORECASE)
ReMatchFrom(p, i, s, j) ==
    IF i > Len(p) THEN j = Len(s) + 1 \/ (j = Len(s) /\ s[j] = "\n")
    ELSE IF i + AtomWidth(p, i) <= Len(p) /\ p[i + AtomWidth(p, i)] = "*"
    THEN \E k \in j..(Len(s) + 1) :
            /\ \A m \in j..(k - 1) : AtomMatches(p, i, s[m])
            /\ ReMatchFrom(p, i + AtomWidth(p, i) + 1, s, k)
    ELSE /\ j <= Len(s)
         /\ AtomMatches(p, i, s[j])
         /\ ReMatchFrom(p, i + AtomWidth(p, i), s, j + 1)

\* a variant of ReMatch that searches as re.search does: the pattern may
\* match from any position of s.  C9 fails of it
ReSearch(value, s) == \E j \in 1..(Len(s) + 1) : ReMatchFrom(value, 1, s, j)

\* re.match(re.compile(value + '$', re.IGNORECASE), s) is not None
ReMatch(value, s) == ReMatchFrom(value, 1, s, 1)

\* the test of one (name, value) filter in the loop of match_attributes
FilterFails(filter, available) ==
    IF filter[1] \notin DOMAIN available THEN TRUE
    ELSE ~ReMatch(filter[2], available[filter[1]])

match_attributes(desired, available) ==
    \A k \in DOMAIN desired : ~FilterFails(desired[k], available)

---------------------------------------------------------------------------
(* common.remove_tags, clean_html *)

\* common.EMPTY_TAGS: tags that do not contain content
COMMON_EMPTY_TAGS ==
    {<<"b","r">>, <<"h","r">>, <<"i","m","g">>, <<"m","e","t","a">>,
     <<"l","i","n","k">>, <<"b","a","s","e">>, <<"e","m","b","e","d">>,
     <<"p","a","r","a","m">>, <<"a","r","e","a">>, <<"c","o","l">>,
     <<"i","n","p","u","t">>}

\* '<(br|hr|...)[^>]*>' matched at position p: its last position, or 0
EmptyTagRegexEndAt(h, p) ==
    MinOrZero({IndexFrom(h, <<">">>, p + 1 + Len(t)) :
                  t \in {u \in COMMON_EMPTY_TAGS : StartsWithAt(h, p, <<"<">> \o u)}}
              \ {0})

\* '<.*?>(.*?)</.*?>' with re.DOTALL matched at position p: its last
\* position, or 0.  The '<.*?>' ends at the first '>', at i; the '(.*?)</'
\* at the first '</' after it, at j; the '.*?>' at the first '>' after that
ChildRegexEndAt(h, p) ==
    IF p > Len(h) \/ h[p] # "<" THEN 0
    ELSE LET i == IndexFrom(h, <<">">>, p + 1)
             j == IF i = 0 THEN 0 ELSE IndexFrom(h, <<"<", "/">>, i + 1)
         IN  IF j = 0 THEN 0 ELSE IndexFrom(h, <<">">>, j + 2)

\* '<[^<]*?>' matched at position p: its last position, or 0.  The first
\* '>' after p, at position i, ends the match when no '<' lies between
AnyTagRegexEndAt(h, p) ==
    IF p > Len(h) \/ h[p] # "<" THEN 0
    ELSE LET i == IndexFrom(h, <<">">>, p + 1)
         IN  IF i # 0 /\ \A k \in (p + 1)..(i - 1) : h[k] # "<" THEN i ELSE 0

\* '<!--.*?-->' with re.DOTALL matched at position p: its last position, or
\* 0.  The comment ends with the first '-->', found at e
CommentRegexEndAt(h, p) ==
    IF StartsWithAt(h, p, <<"<", "!", "-", "-">>)
    THEN LET e == IndexFrom(h, <<"-", "-", ">">>, p + 4)
         IN  IF e = 0 THEN 0 ELSE e + 2
    ELSE 0

\* the regex named kind matched at position p: its last position, or 0
RegexEndAt(kind, h, p) ==
    CASE kind = "empty" -> EmptyTagRegexEndAt(h, p)
      [] kind = "child" -> ChildRegexEndAt(h, p)
      [] kind = "tag" -> AnyTagRegexEndAt(h, p)
      [] kind = "comment" -> CommentRegexEndAt(h, p)

RECURSIVE SubEmpty(_, _, _)

\* regex.sub('', h) from position from on, for the regex named kind: the
\* text up to the leftmost match, at p, and the substitution after the match
SubEmpty(kind, h, from) ==
    LET p == MinOrZero({k \in from..Len(h) : RegexEndAt(kind, h, k) # 0})
    IN  IF p = 0 THEN Drop(h, from - 1)
        ELSE SubSeq(h, from, p - 1) \o SubEmpty(kind, h, RegexEndAt(kind, h, p) + 1)

\* a variant of remove_tags that keeps the children whatever keep_children
\* is: C7 fails of it
remove_tags_keeping(h, keep_children) ==
    SubEmpty("tag", SubEmpty("empty", h, 1), 1)

\* common.remove_tags(html, keep_children): the empty tags are removed,
\* then the children unless keep_children, then the tags left
remove_tags(h, keep_children) ==
    IF keep_children THEN SubEmpty("tag", SubEmpty("empty", h, 1), 1)
    ELSE SubEmpty("tag", SubEmpty("child", SubEmpty("empty", h, 1), 1), 1)

\* clean_html(html, tags) for tags = None: the comments are removed
clean_html(h) == SubEmpty("comment", h, 1)

---------------------------------------------------------------------------
(* search: the body of the loop over the steps of xpath_iter *)

\* search = separator == '' and find_children or find_descendants;
\* matches = search(context, tag)
StepMatches(context, st) ==
    IF st.separator = <<>> THEN find_children(context, st.tag)
    ELSE find_descendants(context, st.tag)

\* a variant of IndexSelects in which -1 selects the first match: C5 fails
\* of it
IndexSelectsFirst(index, child_i, n) ==
    \/ index = <<>>
    \/ index = <<child_i + 1>>
    \/ (index = <<0 - 1>> /\ child_i = 0)

\* index is None or index == child_i + 1
\*     or index == -1 and len(matches) == child_i + 1
IndexSelects(index, child_i, n) ==
    \/ index = <<>>
    \/ index = <<child_i + 1>>
    \/ (index = <<0 - 1>> /\ n = child_i + 1)

RECURSIVE KeptFrom(_, _, _)
\* the matches of one context, from the one of position k on, that pass the
\* index test and the attribute filters, in order
KeptFrom(matches, k, st) ==
    IF k > Len(matches) THEN <<>>
    ELSE (IF /\ IndexSelects(st.index, k - 1, Len(matches))
             /\ match_attributes(st.attributes, get_attributes(matches[k]))
          THEN <<matches[k]>> ELSE <<>>)
         \o KeptFrom(matches, k + 1, st)

RECURSIVE KeptAll(_, _)
\* the kept matches of all the contexts, in order
KeptAll(ctxs, st) ==
    IF ctxs = <<>> THEN <<>>
    ELSE KeptFrom(StepMatches(Head(ctxs), st), 1, st) \o KeptAll(Tail(ctxs), st)

\* a variant of StepKind in which find_descendants accepts '*': C2 fails of it
StepKindNoWildcard(st, ctxs) ==
    IF st.tag = <<".", ".">> THEN "parent"
    ELSE IF st.tag = <<"t", "e", "x", "t", "(", ")">> THEN "text"
    ELSE IF st.tag # <<>> /\ st.tag[1] = "@" THEN "attribute"
    ELSE "tag"

\* which branch of the loop body a step takes
StepKind(st, ctxs) ==
    IF st.tag = <<".", ".">> THEN "parent"
    ELSE IF st.tag = <<"t", "e", "x", "t", "(", ")">> THEN "text"
    ELSE IF st.tag # <<>> /\ st.tag[1] = "@" THEN "attribute"
    ELSE IF ctxs # <<>> /\ st.separator # <<>> /\ st.tag = <<"*">> THEN "wildcard"
    ELSE "tag"

\* children and parent_attributes after the tag branch kept the matches kept
TagChildren(kept) ==
    [children |-> [k \in DOMAIN kept |-> get_content(kept[k])],
     parent_attributes |-> [k \in DOMAIN kept |-> get_attributes(kept[k])]]

\* children and parent_attributes at the end of the branch the step takes
StepChildren(st, ctxs, pattrs) ==
    CASE StepKind(st, ctxs) = "text" ->
            [children |-> [k \in DOMAIN ctxs |-> remove_tags(ctxs[k], FALSE)],
             parent_attributes |-> pattrs]
      [] StepKind(st, ctxs) = "attribute" ->
            [children |-> [k \in DOMAIN pattrs |->
                              DictGet(pattrs[k], LowerStr(Tail(st.tag)))],
             parent_attributes |-> pattrs]
      [] StepKind(st, ctxs) = "tag" -> TagChildren(KeptAll(ctxs, st))

\* if not children and tag == 'tbody': pass  else: contexts = children
NextContexts(st, children, ctxs) ==
    IF children = <<>> /\ st.tag = <<"t", "b", "o", "d", "y">> THEN ctxs ELSE children

\* if not contexts: break
PassResult(n, pattrs) ==
    [contexts |-> n,
     parent_attributes |-> pattrs,
     status |-> IF n = <<>> THEN "returned" ELSE "running"]

\* the end of the loop body (lines 96-104) after the branch left c
PassEnd(st, ctxs, c) ==
    PassResult(NextContexts(st, c.children, ctxs), c.parent_attributes)

\* one pass of the loop body for a step that raises nothing
StepPass(st, ctxs, pattrs) == PassEnd(st, ctxs, StepChildren(st, ctxs, pattrs))

ParentMessage == <<".. not yet supported">>

WildcardMessage == <<"`*' not currently supported for // because too inefficient">>

RECURSIVE Run(_, _, _, _)

\* the loop of search after a pass that left r
RunAfter(toks, i, r) ==
    IF r.status = "returned" THEN [status |-> "returned", contexts |-> r.contexts]
    ELSE Run(toks, i + 1, r.contexts, r.parent_attributes)

\* the loop of search for the step st, the one after i steps
RunStep(toks, i, ctxs, pattrs, st) ==
    IF st.raised \/ StepKind(st, ctxs) \in {"parent", "wildcard"}
    THEN [status |-> "raised", contexts |-> <<>>]
    ELSE RunAfter(toks, i, StepPass(st, ctxs, pattrs))

\* the loop of search from step i + 1 of toks on, to its end: the status
\* and the list returned
Run(toks, i, ctxs, pattrs) ==
    IF i >= Len(toks) THEN [status |-> "returned", contexts |-> ctxs]
    ELSE RunStep(toks, i, ctxs, pattrs, StepOf(toks[i + 1]))

---------------------------------------------------------------------------
(* urlsplit and urljoin of urlparse, as get_links uses them *)

\* the characters of a scheme
SchemeChars == (WordSet \ {"_"}) \cup {"+", "-", "."}

\* urlsplit(link).scheme, the first ':' of link being at position i (0:
\* none): the text before it, lower-cased, when it holds scheme characters
\* only and what follows is not a port number
urlsplit_scheme(link) ==
    LET i == IndexFrom(link, <<":">>, 1)
    IN  IF /\ i > 1
           /\ \A k \in 1..(i - 1) : link[k] \in SchemeChars
           /\ \/ Take(link, i - 1) = <<"h","t","t","p">>
              \/ i = Len(link)
              \/ \E k \in (i + 1)..Len(link) : ~IsDigit(link[k])
        THEN LowerStr(Take(link, i - 1))
        ELSE <<>>

\* urljoin(base, link) for an absolute base, whose path starts at position
\* i (0: it has no path), and a link that is empty, or absolute with a
\* network location, or a path without dot segments.  A link that starts
\* with '/' replaces the path; another path replaces what follows the last
\* '/' of the path
urljoin(base, link) ==
    LET i == IndexFrom(base, <<"/">>, IndexFrom(base, <<":","/","/">>, 1) + 3)
    IN  IF link = <<>> THEN base
        ELSE IF urlsplit_scheme(link) # <<>>
        THEN urlsplit_scheme(link) \o Drop(link, Len(urlsplit_scheme(link)))
        ELSE IF link[1] = "/"
        THEN (IF i = 0 THEN base ELSE Take(base, i - 1)) \o link
        ELSE (IF i = 0 THEN base \o <<"/">>
              ELSE Take(base, Max({p \in i..Len(base) : base[p] = "/"}))) \o link

---------------------------------------------------------------------------
(* common.get_domain, common.same_domain *)

\* s in q
Occurs(q, s) == s = <<>> \/ \E p \in 1..Len(q) : StartsWithAt(q, p, s)

\* the length of the maximal run of digits of u that starts at p
DigitRun(u, p) == Cardinality({e \in p..Len(u) : \A k \in p..e : IsDigit(u[k])})

\* '\d{1,3}\.' matched at position p: the position after it, or 0
IpNext(u, p) ==
    IF /\ p # 0
       /\ DigitRun(u, p) \in 1..3
       /\ p + DigitRun(u, p) <= Len(u)
       /\ u[p + DigitRun(u, p)] = "."
    THEN p + DigitRun(u, p) + 1
    ELSE 0

\* the last '\d{1,3}' matched at position p: its last position, or 0
IpLast(u, p) ==
    IF p = 0 \/ DigitRun(u, p) = 0 THEN 0
    ELSE p + Min({DigitRun(u, p), 3}) - 1

\* '\d{1,3}\.\d{1,3}\.\d{1,3}\.\d{1,3}' matched at position p: its last
\* position, or 0
IpEndAt(u, p) == IpLast(u, IpNext(u, IpNext(u, IpNext(u, p))))

\* the positions of the '://' of u that '^.*://' can reach
SchemeSeparators(u) ==
    {s \in 1..Len(u) :
        StartsWithAt(u, s, <<":","/","/">>) /\ \A k \in 1..(s - 1) : u[k] # "\n"}

\* the positions of the '://' after which the IP regex matches
IpStarts(u) == {s \in SchemeSeparators(u) : IpEndAt(u, s + 3) # 0}

\* s.partition('/')[0].lower(), the first '/' of s being at position i
ServerOf(s) ==
    LET i == IndexFrom(s, <<"/">>, 1)
    IN  LowerStr(IF i = 0 THEN s ELSE Take(s, i - 1))

RECURSIVE SplitDots(_)

\* s.split('.'), the first '.' of s being at position i
SplitDots(s) ==
    LET i == IndexFrom(s, <<".">>, 1)
    IN  IF i = 0 THEN <<s>> ELSE <<Take(s, i - 1)>> \o SplitDots(Drop(s, i))

RECURSIVE JoinDots(_)
\* '.'.join(list)
JoinDots(list) ==
    IF list = <<>> THEN <<>>
    ELSE IF Len(list) = 1 THEN list[1]
    ELSE list[1] \o <<".">> \o JoinDots(Tail(list))

\* suffixes of get_domain
suffixes ==
    {<<"a","c">>, <<"a","d">>, <<"a","e">>, <<"a","e","r","o">>, <<"a","f">>,
     <<"a","g">>, <<"a","i">>, <<"a","l">>, <<"a","m">>, <<"a","n">>,
     <<"a","o">>, <<"a","q">>, <<"a","r">>, <<"a","r","p","a">>, <<"a","s">>,
     <<"a","s","i","a">>, <<"a","t">>, <<"a","u">>, <<"a","w">>, <<"a","x">>,
     <<"a","z">>, <<"b","a">>, <<"b","b">>, <<"b","d">>, <<"b","e">>,
     <<"b","f">>, <<"b","g">>, <<"b","h">>, <<"b","i">>, <<"b","i","z">>,
     <<"b","j">>, <<"b","m">>, <<"b","n">>, <<"b","o">>, <<"b","r">>,
     <<"b","s">>, <<"b","t">>, <<"b","v">>, <<"b","w">>, <<"b","y">>,
     <<"b","z">>, <<"c","a">>, <<"c","a","t">>, <<"c","c">>, <<"c","d">>,
     <<"c","f">>, <<"c","g">>, <<"c","h">>, <<"c","i">>, <<"c","k">>,
     <<"c","l">>, <<"c","m">>, <<"c","n">>, <<"c","o">>, <<"c","o","m">>,
     <<"c","o","o","p">>, <<"c","r">>, <<"c","u">>, <<"c","v">>, <<"c","x">>,
     <<"c","y">>, <<"c","z">>, <<"d","e">>, <<"d","j">>, <<"d","k">>,
     <<"d","m">>, <<"d","o">>, <<"d","z">>, <<"e","c">>, <<"e","d","u">>,
     <<"e","e">>, <<"e","g">>, <<"e","r">>, <<"e","s">>, <<"e","t">>,
     <<"e","u">>, <<"f","i">>, <<"f","j">>, <<"f","k">>, <<"f","m">>,
     <<"f","o">>, <<"f","r">>, <<"g","a">>, <<"g","b">>, <<"g","d">>,
     <<"g","e">>, <<"g","f">>, <<"g","g">>, <<"g","h">>, <<"g","i">>,
     <<"g","l">>, <<"g","m">>, <<"g","n">>, <<"g","o","v">>, <<"g","p">>,
     <<"g","q">>, <<"g","r">>, <<"g","s">>, <<"g","t">>, <<"g","u">>,
     <<"g","w">>, <<"g","y">>, <<"h","k">>, <<"h","m">>, <<"h","n">>,
     <<"h","r">>, <<"h","t">>, <<"h","u">>, <<"i","d">>, <<"i","e">>,
     <<"i","l">>, <<"i","m">>, <<"i","n">>, <<"i","n","f","o">>,
     <<"i","n","t">>, <<"i","o">>, <<"i","q">>, <<"i","r">>, <<"i","s">>,
     <<"i","t">>, <<"j","e">>, <<"j","m">>, <<"j","o">>, <<"j","o","b","s">>,
     <<"j","p">>, <<"k","e">>, <<"k","g">>, <<"k","h">>, <<"k","i">>,
     <<"k","m">>, <<"k","n">>, <<"k","p">>, <<"k","r">>, <<"k","w">>,
     <<"k","y">>, <<"k","z">>, <<"l","a">>, <<"l","b">>, <<"l","c">>,
     <<"l","i">>, <<"l","k">>, <<"l","r">>, <<"l","s">>, <<"l","t">>,
     <<"l","u">>, <<"l","v">>, <<"l","y">>, <<"m","a">>, <<"m","c">>,
     <<"m","d">>, <<"m","e">>, <<"m","g">>, <<"m","h">>, <<"m","i","l">>,
     <<"m","k">>, <<"m","l">>, <<"m","m">>, <<"m","n">>, <<"m","o">>,
     <<"m","o","b","i">>, <<"m","p">>, <<"m","q">>, <<"m","r">>, <<"m","s">>,
     <<"m","t">>, <<"m","u">>, <<"m","v">>, <<"m","w">>, <<"m","x">>,
     <<"m","y">>, <<"m","z">>, <<"n","a">>, <<"n","a","m","e">>, <<"n","c">>,
     <<"n","e">>, <<"n","e","t">>, <<"n","f">>, <<"n","g">>, <<"n","i">>,
     <<"n","l">>, <<"n","o">>, <<"n","p">>, <<"n","r">>, <<"n","u">>,
     <<"n","z">>, <<"o","m">>, <<"o","r","g">>, <<"p","a">>, <<"p","e">>,
     <<"p","f">>, <<"p","g">>, <<"p","h">>, <<"p","k">>, <<"p","l">>,
     <<"p","m">>, <<"p","n">>, <<"p","r">>, <<"p","r","o">>, <<"p","s">>,
     <<"p","t">>, <<"p","w">>, <<"p","y">>, <<"q","a">>, <<"r","e">>,
     <<"r","o">>, <<"r","s">>, <<"r","u">>, <<"r","w">>, <<"s","a">>,
     <<"s","b">>, <<"s","c">>, <<"s","d">>, <<"s","e">>, <<"s","g">>,
     <<"s","h">>, <<"s","i">>, <<"s","j">>, <<"s","k">>, <<"s","l">>,
     <<"s","m">>, <<"s","n">>, <<"s","o">>, <<"s","r">>, <<"s","t">>,
     <<"s","u">>, <<"s","v">>, <<"s","y">>, <<"s","z">>, <<"t","c">>,
     <<"t","d">>, <<"t","e","l">>, <<"t","f">>, <<"t","g">>, <<"t","h">>,
     <<"t","j">>, <<"t","k">>, <<"t","l">>, <<"t","m">>, <<"t","n">>,
     <<"t","o">>, <<"t","p">>, <<"t","r">>, <<"t","t">>, <<"t","v">>,
     <<"t","w">>, <<"t","z">>, <<"u","a">>, <<"u","g">>, <<"u","k">>,
     <<"u","s">>, <<"u","y">>, <<"u","z">>, <<"v","a">>, <<"v","c">>,
     <<"v","e">>, <<"v","g">>, <<"v","i">>, <<"v","n">>, <<"v","u">>,
     <<"w","f">>, <<"w","s">>, <<"x","n">>, <<"y","e">>, <<"y","t">>,
     <<"z","a">>, <<"z","m">>, <<"z","w">>}

RECURSIVE DomainLoop(_, _)
\* the loop of get_domain over the sections
DomainLoop(sections, domain) ==
    IF sections = <<>> THEN domain
    ELSE DomainLoop(Tail(sections),
                    IF Head(sections) \in suffixes
                    THEN Append(domain, Head(sections))
                    ELSE <<Head(sections)>>)

\* get_domain(url): m.groups()[0] of the IP regex, whose greedy '.*' takes
\* the last '://' it can; or else the sections of the server of
\* re.sub('^.*://', '', url) from the last one on that is no suffix
get_domain(u) ==
    LET I == IpStarts(u)
        S == SchemeSeparators(u)
    IN  IF I # {} THEN SubSeq(u, Max(I) + 3, IpEndAt(u, Max(I) + 3))
        ELSE JoinDots(DomainLoop(
                 SplitDots(ServerOf(IF S = {} THEN u ELSE Drop(u, Max(S) + 2))),
                 <<>>))

\* same_domain(url1, url2), for two strings:
\* server1 and server2 and (server1 in server2 or server2 in server1)
same_domain(url1, url2) ==
    LET server1 == get_domain(url1)
        server2 == get_domain(url2)
    IN  /\ server1 # <<>>
        /\ server2 # <<>>
        /\ (Occurs(server2, server1) \/ Occurs(server1, server2))

---------------------------------------------------------------------------
(* get_links *)

\* link[:link.index('#')] if '#' in link, the first '#' being at i
StripFragment(link) ==
    LET i == IndexFrom(link, <<"#">>, 1)
    IN  IF i = 0 THEN link ELSE Take(link, i - 1)

\* the two filters of normalize_link on the joined link.  The first one
\* leaves link = None, and same_domain(url, None) of the second one raises
\* TypeError
FilterJoined(link, u, loc, ext) ==
    IF ~loc /\ same_domain(u, link)
    THEN [raised |-> ~ext, link |-> None]
    ELSE IF ~ext /\ ~same_domain(u, link)
    THEN [raised |-> FALSE, link |-> None]
    ELSE [raised |-> FALSE, link |-> link]

\* normalize_link(link) of get_links(html, u, loc, ext): the link returned,
\* or the exception raised
normalize_link(link, u, loc, ext) ==
    IF urlsplit_scheme(link) \in {<<"h","t","t","p">>, <<"h","t","t","p","s">>, <<>>}
    THEN (IF u # None /\ u # <<>>
          THEN FilterJoined(urljoin(u, StripFragment(link)), u, loc, ext)
          ELSE [raised |-> FALSE, link |-> StripFragment(link)])
    ELSE [raised |-> FALSE, link |-> None]

\* a_links = search(html, '//a/@href')
a_links(h) ==
    Run(StepFindAll(<<"/","/","a","/","@","h","r","e","f">>, 1), 0, <<clean_html(h)>>, <<>>).contexts

Quotes == {"'", "\""}

\* ' ?' matched at position a: the position after it
SkipSpace(h, a) == IF a <= Len(h) /\ h[a] = " " THEN a + 1 ELSE a

\* 'location.href ?= ?[\'"]' matched at position p: the position of the
\* opening quote, or 0.  The '=' is at b and the quote at d
JsOpenAt(h, p) ==
    LET b == SkipSpace(h, p + 13)
        d == SkipSpace(h, b + 1)
    IN  IF /\ StartsWithAt(h, p, <<"l","o","c","a","t","i","o","n">>)
           /\ p + 8 <= Len(h)
           /\ h[p + 8] # "\n"
           /\ StartsWithAt(h, p + 9, <<"h","r","e","f">>)
           /\ b <= Len(h) /\ h[b] = "="
           /\ d <= Len(h) /\ h[d] \in Quotes
        THEN d
        ELSE 0

\* the js regex matched at position p: its last position, or 0.  The lazy
\* '(.*?)[\'"]' ends at the first quote after the opening one, at d
JsEndAt(h, p) ==
    LET d == JsOpenAt(h, p)
    IN  IF d = 0 THEN 0
        ELSE MinOrZero({e \in (d + 1)..Len(h) :
                          /\ h[e] \in Quotes
                          /\ \A k \in (d + 1)..(e - 1) : h[k] # "\n"})

RECURSIVE JsFindFrom(_, _)

\* the groups of the matches of the js regex from position from on: that of
\* the leftmost match, at p, and those of the matches after it
JsFindFrom(h, from) ==
    LET p == MinOrZero({k \in from..Len(h) : JsEndAt(h, k) # 0})
    IN  IF p = 0 THEN <<>>
        ELSE <<SubSeq(h, JsOpenAt(h, p) + 1, JsEndAt(h, p) - 1)>>
             \o JsFindFrom(h, JsEndAt(h, p) + 1)

\* js_links = re.findall('location.href ?= ?[\'"](.*?)[\'"]', html)
js_links(h) == JsFindFrom(h, 1)

---------------------------------------------------------------------------
(* The documents and the queries of search *)

ElemAX == <<"<","a"," ","c","=","x",">","1","<","/","a",">">>          \* <a c=x>1</a>

ElemA == <<"<","a",">","2","<","/","a",">">>                           \* <a>2</a>

ElemUpper == <<"<","A"," ","C","=","\"","X","\"",">","6","<","/","A",">">>  \* <A C="X">6</A>

ElemNested ==                                                          \* <a c=y><a>3</a>w</a>
    <<"<","a"," ","c","=","y",">","<","a",">","3","<","/","a",">","w","<","/","a",">">>

ElemText == <<"x","<","b",">","w","<","/","b",">","!","<","b","r",">">>    \* x<b>w</b>!<br>

ElemComment == <<"<","!","-","-","c","-","-",">">>                     \* <!--c-->

ElemTbody ==                                                           \* <tbody><a c=x>4</a></tbody>
    <<"<","t","b","o","d","y",">","<","a"," ","c","=","x",">","4","<","/","a",">",
      "<","/","t","b","o","d","y",">">>

\* the documents searched
HtmlInputs ==
    {ElemAX \o ElemA, ElemNested, ElemText, ElemComment \o ElemTbody,
     ElemA \o ElemUpper, <<"z">>}

\* the path segments the queries are made of
StepForms ==
    {<<"/","a">>,                                           \* /a
     <<"/","/","a","[","-","1","]">>,                       \* //a[-1]
     <<"/","t","b","o","d","y">>,                           \* /tbody
     <<"/","/","*">>,                                       \* //*
     <<"/","/","*","[","1","]">>,                           \* //*[1]
     <<"/",".",".">>,                                       \* /..
     <<"/","@","c">>,                                       \* /@c
     <<"/","t","e","x","t","(",")">>,                       \* /text()
     <<"/","a","[","-","1","]","[","@","c","=","x","]">>,   \* /a[-1][@c=x]
     <<"/","a","[","x","]">>,                               \* /a[x]
     <<"/","a","[","1">>}                                   \* /a[1

\* what a query starts with: nothing, or the parent axis in front of its
\* first segment
Prefixes == {<<>>, <<".", ".">>}

\* the longest query, in path segments
MaxSteps == 3

\* the queries: up to MaxSteps segments
XPathInputs ==
    {pre \o Concat(q) :
        pre \in Prefixes, q \in UNION {[1..n -> StepForms] : n \in 0..MaxSteps}}

---------------------------------------------------------------------------
(* search(html, xpath): one action per branch of the loop body *)

IdleSearch ==
    /\ html = <<>>
    /\ xpath = <<>>
    /\ tokens = <<>>
    /\ tag_i = 0
    /\ contexts = <<>>
    /\ parent_attributes = <<>>
    /\ status = "idle"
    /\ error = <<>>
    /\ last = "none"
    /\ prev_contexts = <<>>
    /\ prev_attributes = <<>>

IdleChildren ==
    /\ fc_items = <<>>
    /\ fc_fn = "idle"
    /\ fc_status = "idle"
    /\ fc_text = <<>>
    /\ fc_tag = <<>>
    /\ fc_html = <<>>
    /\ results = <<>>
    /\ found = FALSE

IdleMatch ==
    /\ desired_attributes = <<>>
    /\ available_attributes = <<>>
    /\ ma_i = 0
    /\ ma_result = "idle"

IdleLinks ==
    /\ gl_html = <<>>
    /\ url = <<>>
    /\ local = TRUE
    /\ external = TRUE
    /\ candidates = <<>>
    /\ gl_i = 0
    /\ links = <<>>
    /\ gl_status = "idle"

IdleIter ==
    /\ xi_segments = <<>>
    /\ xi_xpath = <<>>
    /\ xi_tokens = <<>>
    /\ xi_i = 0
    /\ steps = <<>>
    /\ xi_status = "idle"

IdleSplit ==
    /\ sp_pieces = <<>>
    /\ sp_html = <<>>
    /\ sp_tag = <<>>
    /\ sp_from = 0
    /\ sp_depth = 0
    /\ sp_result = <<>>
    /\ sp_status = "idle"

IdleJump ==
    /\ jn_html = <<>>
    /\ jn_result = <<>>
    /\ jn_status = "idle"

\* no helper function is called
IdleHelpers == IdleIter /\ IdleSplit /\ IdleJump

\* search is called with a document and a query
Init ==
    /\ html \in HtmlInputs
    /\ xpath \in XPathInputs
    /\ tokens = <<>>
    /\ tag_i = 0
    /\ contexts = <<>>
    /\ parent_attributes = <<>>
    /\ status = "start"
    /\ error = <<>>
    /\ last = "none"
    /\ prev_contexts = <<>>
    /\ prev_attributes = <<>>
    /\ IdleChildren /\ IdleMatch /\ IdleLinks /\ IdleHelpers

\* the step xpath_iter yields next, or the exception it raises
NextStep == StepOf(tokens[tag_i + 1])

HasNext == status = "running" /\ tag_i < Len(tokens)

\* html = clean_html(html, remove); contexts = [html]; parent_attributes = []
\* and the re.findall of xpath_iter
Start ==
    /\ status = "start"
    /\ html' = clean_html(html)
    /\ contexts' = <<clean_html(html)>>
    /\ parent_attributes' = <<>>
    /\ tokens' = StepFindAll(xpath, 1)
    /\ status' = "running"
    /\ UNCHANGED <<xpath, tag_i, error, last, prev_contexts, prev_attributes>>
    /\ UNCHANGED <<childrenVars, matchVars, linksVars, helperVars>>

\* an exception leaves search: nothing is returned
Raise(kind, message) ==
    /\ status' = "raised"
    /\ error' = message
    /\ last' = kind
    /\ prev_contexts' = contexts
    /\ prev_attributes' = parent_attributes
    /\ UNCHANGED <<html, xpath, tokens, tag_i, contexts, parent_attributes>>
    /\ UNCHANGED <<childrenVars, matchVars, linksVars, helperVars>>

\* the loop body ran to its end and left r
PassTo(kind, r) ==
    /\ contexts' = r.contexts
    /\ parent_attributes' = r.parent_attributes
    /\ status' = r.status
    /\ tag_i' = tag_i + 1
    /\ last' = kind
    /\ prev_contexts' = contexts
    /\ prev_attributes' = parent_attributes
    /\ UNCHANGED <<html, xpath, tokens, error>>
    /\ UNCHANGED <<childrenVars, matchVars, linksVars, helperVars>>

\* the loop body ran to its end for the step (lines 67-104)
Pass(kind) == PassTo(kind, StepPass(NextStep, contexts, parent_attributes))

\* xpath_iter raises XPathException('Unknown format: ' + attribute)
UnknownFormat ==
    /\ HasNext
    /\ NextStep.raised
    /\ Raise("unknown_format", NextStep.message)

\* tag == '..': raise XPathException('.. not yet supported')
StepParent ==
    /\ HasNext
    /\ ~NextStep.raised
    /\ StepKind(NextStep, contexts) = "parent"
    /\ Raise("parent", ParentMessage)

\* find_descendants raises XPathException for tag == '*'
StepWildcard ==
    /\ HasNext
    /\ ~NextStep.raised
    /\ StepKind(NextStep, contexts) = "wildcard"
    /\ Raise("wildcard", WildcardMessage)

\* tag == 'text()'
StepText ==
    /\ HasNext
    /\ ~NextStep.raised
    /\ StepKind(NextStep, contexts) = "text"
    /\ Pass("text")

\* tag.startswith('@')
StepAttribute ==
    /\ HasNext
    /\ ~NextStep.raised
    /\ StepKind(NextStep, contexts) = "attribute"
    /\ Pass("attribute")

\* have tag
StepTag ==
    /\ HasNext
    /\ ~NextStep.raised
    /\ StepKind(NextStep, contexts) = "tag"
    /\ Pass("tag")

\* xpath_iter is exhausted: return contexts
Finish ==
    /\ status = "running"
    /\ tag_i = Len(tokens)
    /\ status' = "returned"
    /\ UNCHANGED <<html, xpath, tokens, tag_i, contexts, parent_attributes, error,
                   last, prev_contexts, prev_attributes>>
    /\ UNCHANGED <<childrenVars, matchVars, linksVars, helperVars>>

Next ==
    \/ Start
    \/ UnknownFormat
    \/ StepParent
    \/ StepWildcard
    \/ StepText
    \/ StepAttribute
    \/ StepTag
    \/ Finish

Spec == Init /\ [][Next]_vars

---------------------------------------------------------------------------
(* find_children(html, tag) and find_descendants(html, tag): one action per
   outcome of a pass of their loops *)

\* the top-level items a document is written from: text, elements, and
\* unclosed void tags.  tag is <<>> for text
ItemText == [html |-> <<"z">>, tag |-> <<>>, void |-> FALSE]

ItemB == [html |-> <<"<","b",">","y","<","/","b",">">>, tag |-> <<"b">>, void |-> FALSE]

ItemBBr ==                                                  \* <b><br></b>
    [html |-> <<"<","b",">","<","b","r",">","<","/","b",">">>,
     tag |-> <<"b">>, void |-> FALSE]

ItemI == [html |-> <<"<","i",">","w","<","/","i",">">>, tag |-> <<"i">>, void |-> FALSE]

ItemNested ==                                               \* <I><i>v</i></I>
    [html |-> <<"<","I",">","<","i",">","v","<","/","i",">","<","/","I",">">>,
     tag |-> <<"I">>, void |-> FALSE]

ItemImg == [html |-> <<"<","i","m","g",">">>, tag |-> <<"i","m","g">>, void |-> TRUE]

ItemBr == [html |-> <<"<","b","r",">">>, tag |-> <<"b","r">>, void |-> TRUE]

Items == {ItemText, ItemB, ItemBBr, ItemI, ItemNested, ItemImg, ItemBr}

\* the most top-level items of a document
MaxItems == 3

ItemSeqs == UNION {[1..n -> Items] : n \in 0..MaxItems}

\* the document written from the items
DocOf(items) == Concat([k \in DOMAIN items |-> items[k].html])

\* the tags searched for
TagInputs == {<<"b">>, <<"i">>, <<"B">>, <<"b","r">>, <<"i","m","g">>, <<"*">>}

\* find_children or find_descendants is called with a document and a tag
ChildrenInit ==
    /\ fc_items \in ItemSeqs
    /\ fc_fn \in {"find_children", "find_descendants"}
    /\ fc_tag \in TagInputs
    /\ fc_text = DocOf(fc_items)
    /\ fc_html = fc_text
    /\ results = <<>>
    /\ found = TRUE
    /\ fc_status = "running"
    /\ IdleSearch /\ IdleMatch /\ IdleLinks /\ IdleHelpers

InChildren == fc_fn = "find_children" /\ fc_status = "running"

\* a pass of the while loop left n
ChildrenTo(n) ==
    /\ fc_html' = n.html
    /\ results' = n.results
    /\ found' = n.found
    /\ fc_status' = IF n.found THEN "running" ELSE "returned"
    /\ UNCHANGED <<fc_items, fc_fn, fc_text, fc_tag>>
    /\ UNCHANGED <<searchVars, matchVars, linksVars, helperVars>>

\* the pass of the while loop of find_children from the state
ThisPass == ChildrenPass(fc_html, fc_tag, results)

\* results.append(tag_html)
ChildrenAppend ==
    /\ InChildren
    /\ ThisPass.found
    /\ ThisPass.results # results
    /\ ChildrenTo(ThisPass)

\* the tag of tag_html is not the one searched for
ChildrenSkip ==
    /\ InChildren
    /\ ThisPass.found
    /\ ThisPass.results = results
    /\ ChildrenTo(ThisPass)

\* found = False: jump_next_tag found no tag, or split_tag no fragment
ChildrenStop ==
    /\ InChildren
    /\ ~ThisPass.found
    /\ ChildrenTo(ThisPass)

InDescendants == fc_fn = "find_descendants" /\ fc_status = "running"

RECURSIVE Nth(_, _)
\* the k-th least position of S
Nth(S, k) == IF k = 1 THEN Min(S) ELSE Nth(S \ {Min(S)}, k - 1)

\* if tag == '*': raise XPathException
DescendantsRaise ==
    /\ InDescendants
    /\ fc_tag = <<"*">>
    /\ fc_status' = "raised"
    /\ UNCHANGED <<fc_items, fc_fn, fc_text, fc_tag, fc_html, results, found>>
    /\ UNCHANGED <<searchVars, matchVars, linksVars, helperVars>>

\* the body of the for loop, for the match of '<%s' % tag after those seen
DescendantsAppend ==
    /\ InDescendants
    /\ fc_tag # <<"*">>
    /\ Len(results) < Cardinality(DescendantStarts(fc_text, fc_tag))
    /\ results' =
          Append(results,
                 split_tag(Drop(fc_text,
                                Nth(DescendantStarts(fc_text, fc_tag),
                                    Len(results) + 1) - 1))[1])
    /\ UNCHANGED <<fc_items, fc_fn, fc_text, fc_tag, fc_html, found, fc_status>>
    /\ UNCHANGED <<searchVars, matchVars, linksVars, helperVars>>

\* finditer is exhausted: return results
DescendantsReturn ==
    /\ InDescendants
    /\ fc_tag # <<"*">>
    /\ Len(results) = Cardinality(DescendantStarts(fc_text, fc_tag))
    /\ fc_status' = "returned"
    /\ UNCHANGED <<fc_items, fc_fn, fc_text, fc_tag, fc_html, results, found>>
    /\ UNCHANGED <<searchVars, matchVars, linksVars, helperVars>>

ChildrenNext ==
    \/ ChildrenAppend
    \/ ChildrenSkip
    \/ ChildrenStop
    \/ DescendantsRaise
    \/ DescendantsAppend
    \/ DescendantsReturn

SpecChildren == ChildrenInit /\ [][ChildrenNext]_vars

---------------------------------------------------------------------------
(* match_attributes(desired_attributes, available_attributes): one action
   per outcome of a pass of its loop *)

AttributeNames == {<<"c">>, <<"i", "d">>}

AttributeValues == {<<"t","e","s","t">>, <<"t","e","s","t","2">>, <<"T","e","s","t">>}

\* the patterns of the filters: test, est, t.*, test\d, TEST
Patterns ==
    {<<"t","e","s","t">>, <<"e","s","t">>, <<"t",".","*">>,
     <<"t","e","s","t","\\","d">>, <<"T","E","S","T">>}

\* the most filters of a step
MaxFilters == 2

FilterSeqs == UNION {[1..n -> AttributeNames \X Patterns] : n \in 0..MaxFilters}

AttributeDicts == UNION {[D -> AttributeValues] : D \in SUBSET AttributeNames}

\* match_attributes is called with the filters and the attributes
MatchInit ==
    /\ desired_attributes \in FilterSeqs
    /\ available_attributes \in AttributeDicts
    /\ ma_i = 0
    /\ ma_result = "running"
    /\ IdleSearch /\ IdleChildren /\ IdleLinks /\ IdleHelpers

\* the loop has a filter to examine
HasFilter == ma_result = "running" /\ ma_i < Len(desired_attributes)

\* the filter fails: return False
MatchFail ==
    /\ HasFilter
    /\ FilterFails(desired_attributes[ma_i + 1], available_attributes)
    /\ ma_result' = "False"
    /\ UNCHANGED <<desired_attributes, available_attributes, ma_i>>
    /\ UNCHANGED <<searchVars, childrenVars, linksVars, helperVars>>

\* the filter holds: the loop goes on
MatchPass ==
    /\ HasFilter
    /\ ~FilterFails(desired_attributes[ma_i + 1], available_attributes)
    /\ ma_i' = ma_i + 1
    /\ UNCHANGED <<desired_attributes, available_attributes, ma_result>>
    /\ UNCHANGED <<searchVars, childrenVars, linksVars, helperVars>>

\* the loop is exhausted: return True
MatchTrue ==
    /\ ma_result = "running"
    /\ ma_i = Len(desired_attributes)
    /\ ma_result' = "True"
    /\ UNCHANGED <<desired_attributes, available_attributes, ma_i>>
    /\ UNCHANGED <<searchVars, childrenVars, linksVars, helperVars>>

MatchNext ==
    \/ MatchFail
    \/ MatchPass
    \/ MatchTrue

SpecMatch == MatchInit /\ [][MatchNext]_vars

---------------------------------------------------------------------------
(* get_links(html, url, local, external): one action per outcome of a pass
   of its loop *)

\* the base url
BaseUrl == <<"h","t","t","p",":","/","/","e","x",".","c","o","m","/","p">>

\* the links of the documents
HrefPath == <<"/","x","#","f">>

HrefSame == <<"h","t","t","p",":","/","/","e","x",".","c","o","m","/","y">>

HrefIndex == <<"h","t","t","p",":","/","/","i","n","d","e","x",".","c","o","m","/">>

HrefOther == <<"h","t","t","p","s",":","/","/","w",".","o","r","g","/">>

HrefMail == <<"m","a","i","l","t","o",":","a">>

HrefFragment == <<"#","t">>

HrefIp == <<"h","t","t","p",":","/","/","1",".","2",".","3",".","4","/">>

Hrefs == {HrefPath, HrefSame, HrefIndex, HrefOther, HrefMail, HrefFragment, HrefIp}

\* <a href="...">l</a>
Anchor(href) == <<"<","a"," ","h","r","e","f","=","\"">> \o href \o <<"\"",">","l","<","/","a",">">>

\* <script>location.href = '/j'</script>
ScriptItem == <<"<","s","c","r","i","p","t",">","l","o","c","a","t","i","o","n",".","h","r","e","f"," ","="," ","'","/","j","'","<","/","s","c","r","i","p","t",">">>

LinkItems == {Anchor(href) : href \in Hrefs} \cup {ScriptItem}

\* the most links of a document
MaxLinks == 2

LinkDocs == {Concat(q) : q \in UNION {[1..n -> LinkItems] : n \in 0..MaxLinks}}

\* get_links is called with a document, a base url or None, and the flags
LinksInit ==
    /\ gl_html \in LinkDocs
    /\ url \in {None, BaseUrl}
    /\ local \in BOOLEAN
    /\ external \in BOOLEAN
    /\ candidates = <<>>
    /\ gl_i = 0
    /\ links = <<>>
    /\ gl_status = "start"
    /\ IdleSearch /\ IdleChildren /\ IdleMatch /\ IdleHelpers

\* a_links = search(html, '//a/@href'); js_links = re.findall(...);
\* links = []
LinksStart ==
    /\ gl_status = "start"
    /\ candidates' = a_links(gl_html) \o js_links(gl_html)
    /\ gl_status' = "running"
    /\ UNCHANGED <<gl_html, url, local, external, gl_i, links>>
    /\ UNCHANGED <<searchVars, childrenVars, matchVars, helperVars>>

HasLink == gl_status = "running" /\ gl_i < Len(candidates)

\* link = normalize_link(link) for the link of this pass
Normalized == normalize_link(candidates[gl_i + 1], url, local, external)

\* if link and link not in links
IsNewLink(link) ==
    /\ link # None
    /\ link # <<>>
    /\ \A k \in DOMAIN links : links[k] # link

\* normalize_link raises TypeError, which the try does not catch
LinkRaise ==
    /\ HasLink
    /\ Normalized.raised
    /\ gl_status' = "raised"
    /\ UNCHANGED <<gl_html, url, local, external, candidates, gl_i, links>>
    /\ UNCHANGED <<searchVars, childrenVars, matchVars, helperVars>>

\* links.append(link)
LinkAppend ==
    /\ HasLink
    /\ ~Normalized.raised
    /\ IsNewLink(Normalized.link)
    /\ links' = Append(links, Normalized.link)
    /\ gl_i' = gl_i + 1
    /\ UNCHANGED <<gl_html, url, local, external, candidates, gl_status>>
    /\ UNCHANGED <<searchVars, childrenVars, matchVars, helperVars>>

\* the link is None, or empty, or already in links
LinkSkip ==
    /\ HasLink
    /\ ~Normalized.raised
    /\ ~IsNewLink(Normalized.link)
    /\ gl_i' = gl_i + 1
    /\ UNCHANGED <<gl_html, url, local, external, candidates, links, gl_status>>
    /\ UNCHANGED <<searchVars, childrenVars, matchVars, helperVars>>

\* return links
LinksReturn ==
    /\ gl_status = "running"
    /\ gl_i = Len(candidates)
    /\ gl_status' = "returned"
    /\ UNCHANGED <<gl_html, url, local, external, candidates, gl_i, links>>
    /\ UNCHANGED <<searchVars, childrenVars, matchVars, helperVars>>

LinksNext ==
    \/ LinksStart
    \/ LinkRaise
    \/ LinkAppend
    \/ LinkSkip
    \/ LinksReturn

SpecLinks == LinksInit /\ [][LinksNext]_vars

---------------------------------------------------------------------------
(* xpath_iter(xpath): the generator, one action per step yielded *)

\* the brackets a segment is written with: its text between '[' and ']',
\* and what the writer means by it
BracketOne == [text |-> <<"1">>, kind |-> "index", n |-> 1]
BracketTwo == [text |-> <<"2">>, kind |-> "index", n |-> 2]
BracketLast == [text |-> <<"-", "1">>, kind |-> "index", n |-> 0 - 1]
BracketClass ==
    [text |-> <<"@","c","l","a","s","s","=","\"","t","e","x","t","\"">>,
     kind |-> "filter", name |-> <<"c","l","a","s","s">>, value |-> <<"t","e","x","t">>]
BracketId ==
    [text |-> <<"@","I","D","=","'","T","o","p","'">>,
     kind |-> "filter", name |-> <<"i","d">>, value |-> <<"t","o","p">>]
BracketC ==
    [text |-> <<"@","c","=","x">>,
     kind |-> "filter", name |-> <<"c">>, value |-> <<"x">>]
BracketHref ==
    [text |-> <<"@","h","r","e","f","=","\"","/","x","\"">>,
     kind |-> "filter", name |-> <<"h","r","e","f">>, value |-> <<"/","x">>]
BracketUnknown == [text |-> <<"x">>, kind |-> "unknown"]

\* the path segments the queries are written from
Segments ==
    {[axis |-> "child", tag |-> <<"d","i","v">>, brackets |-> <<BracketOne>>],              \* /div[1]
     [axis |-> "descendant", tag |-> <<"s","p","a","n">>, brackets |-> <<BracketClass>>],   \* //span[@class="text"]
     [axis |-> "child", tag |-> <<"a">>, brackets |-> <<BracketId, BracketLast>>],          \* /a[@ID='Top'][-1]
     [axis |-> "descendant", tag |-> <<"a">>, brackets |-> <<>>],                           \* //a
     [axis |-> "child", tag |-> <<"b">>, brackets |-> <<BracketC, BracketTwo, BracketId>>], \* /b[@c=x][2][@ID='Top']
     [axis |-> "descendant", tag |-> <<"a">>, brackets |-> <<BracketHref>>],                \* //a[@href="/x"]
     [axis |-> "child", tag |-> <<"a">>, brackets |-> <<BracketUnknown>>]}                  \* /a[x]

\* the longest query given to xpath_iter, in path segments
MaxSegments == 3

\* the text of a segment
SegmentText(g) ==
    (IF g.axis = "child" THEN <<"/">> ELSE <<"/", "/">>) \o g.tag
        \o Concat([k \in DOMAIN g.brackets |-> <<"[">> \o g.brackets[k].text \o <<"]">>])

IterInit ==
    /\ xi_segments \in UNION {[1..n -> Segments] : n \in 0..MaxSegments}
    /\ xi_xpath = Concat([k \in DOMAIN xi_segments |-> SegmentText(xi_segments[k])])
    /\ xi_tokens = <<>>
    /\ xi_i = 0
    /\ steps = <<>>
    /\ xi_status = "start"
    /\ IdleSearch /\ IdleChildren /\ IdleMatch /\ IdleLinks
    /\ IdleSplit /\ IdleJump

\* re.compile('(|/|\.\.)/([^/]+)').findall(xpath)
IterStart ==
    /\ xi_status = "start"
    /\ xi_tokens' = StepFindAll(xi_xpath, 1)
    /\ xi_status' = "running"
    /\ UNCHANGED <<xi_segments, xi_xpath, xi_i, steps>>
    /\ UNCHANGED <<searchVars, childrenVars, matchVars, linksVars, splitVars, jumpVars>>

HasToken == xi_status = "running" /\ xi_i < Len(xi_tokens)

\* the body of the for loop for the (separator, token) of this pass
ThisStep == StepOf(xi_tokens[xi_i + 1])

\* yield separator, tag, index, attributes
IterYield ==
    /\ HasToken
    /\ ~ThisStep.raised
    /\ steps' = Append(steps, ThisStep)
    /\ xi_i' = xi_i + 1
    /\ UNCHANGED <<xi_segments, xi_xpath, xi_tokens, xi_status>>
    /\ UNCHANGED <<searchVars, childrenVars, matchVars, linksVars, splitVars, jumpVars>>

\* raise XPathException('Unknown format: ' + attribute)
IterRaise ==
    /\ HasToken
    /\ ThisStep.raised
    /\ xi_status' = "raised"
    /\ UNCHANGED <<xi_segments, xi_xpath, xi_tokens, xi_i, steps>>
    /\ UNCHANGED <<searchVars, childrenVars, matchVars, linksVars, splitVars, jumpVars>>

\* the for loop is over and the generator is exhausted
IterStop ==
    /\ xi_status = "running"
    /\ xi_i = Len(xi_tokens)
    /\ xi_status' = "exhausted"
    /\ UNCHANGED <<xi_segments, xi_xpath, xi_tokens, xi_i, steps>>
    /\ UNCHANGED <<searchVars, childrenVars, matchVars, linksVars, splitVars, jumpVars>>

IterNext ==
    \/ IterStart
    \/ IterYield
    \/ IterRaise
    \/ IterStop

SpecIter == IterInit /\ [][IterNext]_vars

---------------------------------------------------------------------------
(* split_tag(html): one action per branch of the body of the for loop *)

\* the pieces the texts are written from: a tag of a name, in its opening,
\* closing or self-closing form, or text
PieceOpen == [html |-> <<"<","b",">">>, name |-> <<"b">>, form |-> "open"]
PieceOpenUpper ==
    [html |-> <<"<","B"," ","c","=","x",">">>, name |-> <<"B">>, form |-> "open"]
PieceClose == [html |-> <<"<","/","b",">">>, name |-> <<"b">>, form |-> "close"]
PieceCloseUpper == [html |-> <<"<","/","B",">">>, name |-> <<"B">>, form |-> "close"]
PieceSelf == [html |-> <<"<","b","/",">">>, name |-> <<"b">>, form |-> "self"]
PieceBr == [html |-> <<"<","b","r",">">>, name |-> <<"b","r">>, form |-> "open"]
PieceI == [html |-> <<"<","i",">">>, name |-> <<"i">>, form |-> "open"]
PieceText == [html |-> <<"x">>, name |-> <<>>, form |-> "text"]
\* a tag that is not closed
PieceBroken == [html |-> <<"<","b">>, name |-> <<"b">>, form |-> "broken"]

Pieces ==
    {PieceOpen, PieceOpenUpper, PieceClose, PieceCloseUpper, PieceSelf,
     PieceBr, PieceI, PieceText}

\* the most pieces of a text after its first tag
MaxPieces == 3

\* split_tag is called with a text that starts with an opening tag
SplitInit ==
    /\ sp_pieces \in
          {<<first>> \o rest :
              first \in {PieceOpen, PieceOpenUpper},
              rest \in UNION {[1..n -> Pieces] : n \in 0..MaxPieces}}
    /\ sp_html = DocOf(sp_pieces)
    /\ sp_tag = <<>>
    /\ sp_from = 0
    /\ sp_depth = 0
    /\ sp_result = <<>>
    /\ sp_status = "start"
    /\ IdleSearch /\ IdleChildren /\ IdleMatch /\ IdleLinks
    /\ IdleIter /\ IdleJump

\* tag = get_tag(html); depth = 0; the regex is compiled from tag
SplitStart ==
    /\ sp_status = "start"
    /\ sp_tag' = FormatTag(get_tag(sp_html))
    /\ sp_depth' = 0
    /\ sp_from' = 1
    /\ sp_status' = "running"
    /\ UNCHANGED <<sp_pieces, sp_html, sp_result>>
    /\ UNCHANGED <<searchVars, childrenVars, matchVars, linksVars, iterVars, jumpVars>>

\* the start of the match of this pass of the for loop, 0 when finditer is
\* exhausted, and its end
MatchStart == SplitRegexNext(sp_html, sp_tag, sp_from)
MatchEnd == SplitRegexEndAt(sp_html, sp_tag, MatchStart)

InSplit == sp_status = "running" /\ MatchStart # 0

\* the end of the body: if depth == 0, return html[:i], html[i:]
SplitAfter(d) ==
    /\ sp_depth' = d
    /\ sp_from' = MatchEnd + 1
    /\ sp_result' = IF d = 0 THEN <<Take(sp_html, MatchEnd), Drop(sp_html, MatchEnd)>>
                    ELSE sp_result
    /\ sp_status' = IF d = 0 THEN "returned" ELSE "running"
    /\ UNCHANGED <<sp_pieces, sp_html, sp_tag>>
    /\ UNCHANGED <<searchVars, childrenVars, matchVars, linksVars, iterVars, jumpVars>>

\* html[match.start() + 1] == '/': depth -= 1
SplitClose ==
    /\ InSplit
    /\ sp_html[MatchStart + 1] = "/"
    /\ SplitAfter(sp_depth - 1)

\* html[match.end() - 2] == '/': pass
SplitSelfClosing ==
    /\ InSplit
    /\ sp_html[MatchStart + 1] # "/"
    /\ sp_html[MatchEnd - 1] = "/"
    /\ SplitAfter(sp_depth)

\* else: depth += 1
SplitOpen ==
    /\ InSplit
    /\ sp_html[MatchStart + 1] # "/"
    /\ sp_html[MatchEnd - 1] # "/"
    /\ SplitAfter(sp_depth + 1)

\* finditer is exhausted: return html + '</%s>' % tag, ''
SplitExhausted ==
    /\ sp_status = "running"
    /\ MatchStart = 0
    /\ sp_result' = <<sp_html \o <<"<", "/">> \o sp_tag \o <<">">>, <<>> >>
    /\ sp_status' = "returned"
    /\ UNCHANGED <<sp_pieces, sp_html, sp_tag, sp_from, sp_depth>>
    /\ UNCHANGED <<searchVars, childrenVars, matchVars, linksVars, iterVars, jumpVars>>

SplitNext ==
    \/ SplitStart
    \/ SplitClose
    \/ SplitSelfClosing
    \/ SplitOpen
    \/ SplitExhausted

SpecSplit == SplitInit /\ [][SplitNext]_vars

---------------------------------------------------------------------------
(* find_children(html, tag) step by step: the passes of the loops of
   jump_next_tag and split_tag are steps of their own *)

\* the pieces of the texts scanned, a tag that is not closed among them
ScanPieces ==
    {PieceOpen, PieceClose, PieceSelf, PieceBr, PieceI, PieceText, PieceBroken}

\* the texts scanned: up to MaxPieces pieces in any order
ScanTexts == UNION {[1..n -> ScanPieces] : n \in 0..MaxPieces}

\* find_children is called with a text and a tag
ScanInit ==
    /\ fc_items \in ScanTexts
    /\ fc_fn = "find_children"
    /\ fc_tag \in {<<"b">>, <<"*">>}
    /\ fc_text = DocOf(fc_items)
    /\ fc_html = fc_text
    /\ results = <<>>
    /\ found = TRUE
    /\ fc_status = "running"
    /\ IdleSearch /\ IdleMatch /\ IdleLinks /\ IdleHelpers

\* while found: html = jump_next_tag(html) is called
ScanJump ==
    /\ InChildren
    /\ jn_status = "idle"
    /\ sp_status = "idle"
    /\ jn_html' = fc_html
    /\ jn_status' = "running"
    /\ UNCHANGED jn_result
    /\ UNCHANGED <<searchVars, childrenVars, matchVars, linksVars, iterVars, splitVars>>

\* match = tag_regex.search(html): the start of the match, or 0
JumpStart == TagRegexSearch(jn_html)

\* match.groups()[0].lower() in EMPTY_TAGS
JumpVoid ==
    LowerStr(SubSeq(jn_html, JumpStart + 1, WordRunEnd(jn_html, JumpStart + 1)))
        \in EMPTY_TAGS

\* html = html[match.end():]
JumpSkip ==
    /\ jn_status = "running"
    /\ JumpStart # 0
    /\ JumpVoid
    /\ jn_html' = Drop(jn_html, WordRunEnd(jn_html, JumpStart + 1))
    /\ UNCHANGED <<jn_result, jn_status>>
    /\ UNCHANGED <<searchVars, childrenVars, matchVars, linksVars, iterVars, splitVars>>

\* return html[match.start():]
JumpReturn ==
    /\ jn_status = "running"
    /\ JumpStart # 0
    /\ ~JumpVoid
    /\ jn_result' = Drop(jn_html, JumpStart - 1)
    /\ jn_status' = "returned"
    /\ UNCHANGED jn_html
    /\ UNCHANGED <<searchVars, childrenVars, matchVars, linksVars, iterVars, splitVars>>

\* return None
JumpNone ==
    /\ jn_status = "running"
    /\ JumpStart = 0
    /\ jn_result' = None
    /\ jn_status' = "returned"
    /\ UNCHANGED jn_html
    /\ UNCHANGED <<searchVars, childrenVars, matchVars, linksVars, iterVars, splitVars>>

\* jump_next_tag has returned and its frame is gone
JumpDone ==
    /\ jn_status = "returned"
    /\ jn_html' = <<>>
    /\ jn_result' = <<>>
    /\ jn_status' = "idle"

\* if html: split_tag(html) is called
ScanSplit ==
    /\ InChildren
    /\ JumpDone
    /\ jn_result # None
    /\ jn_result # <<>>
    /\ fc_html' = jn_result
    /\ sp_html' = jn_result
    /\ sp_status' = "start"
    /\ UNCHANGED <<fc_items, fc_fn, fc_text, fc_tag, results, found, fc_status>>
    /\ UNCHANGED <<sp_pieces, sp_tag, sp_from, sp_depth, sp_result>>
    /\ UNCHANGED <<searchVars, matchVars, linksVars, iterVars>>

\* else: found = False, and return results
ScanStop ==
    /\ InChildren
    /\ JumpDone
    /\ (jn_result = None \/ jn_result = <<>>)
    /\ fc_html' = jn_result
    /\ found' = FALSE
    /\ fc_status' = "returned"
    /\ UNCHANGED <<fc_items, fc_fn, fc_text, fc_tag, results>>
    /\ UNCHANGED <<searchVars, matchVars, linksVars, iterVars, splitVars>>

\* tag_html, html = split_tag(html) has returned: the rest of the pass
ScanCollect ==
    /\ InChildren
    /\ sp_status = "returned"
    /\ fc_html' = ChildrenSplit(sp_result, fc_tag, results).html
    /\ results' = ChildrenSplit(sp_result, fc_tag, results).results
    /\ found' = ChildrenSplit(sp_result, fc_tag, results).found
    /\ fc_status' = IF ChildrenSplit(sp_result, fc_tag, results).found
                    THEN "running" ELSE "returned"
    /\ sp_html' = <<>>
    /\ sp_tag' = <<>>
    /\ sp_from' = 0
    /\ sp_depth' = 0
    /\ sp_result' = <<>>
    /\ sp_status' = "idle"
    /\ UNCHANGED <<fc_items, fc_fn, fc_text, fc_tag, sp_pieces>>
    /\ UNCHANGED <<searchVars, matchVars, linksVars, iterVars, jumpVars>>

ScanNext ==
    \/ ScanJump
    \/ JumpSkip
    \/ JumpReturn
    \/ JumpNone
    \/ ScanSplit
    \/ ScanStop
    \/ SplitStart
    \/ SplitClose
    \/ SplitSelfClosing
    \/ SplitOpen
    \/ SplitExhausted
    \/ ScanCollect

\* a call that can take a step takes it: the interpreter runs the loops of
\* find_children, jump_next_tag and split_tag without waiting for anything
SpecScan == ScanInit /\ [][ScanNext]_vars /\ WF_vars(ScanNext)

---------------------------------------------------------------------------
(* Properties of search *)

\* the step the loop body ran last to its end
LastStep == StepOf(tokens[tag_i])

\* the parent-axis token occurs in the query
HasParentAxis == Occurs(xpath, <<".", ".">>)

\* C1: a query in which the parent-axis token `..` occurs never returns a
\* result list (search raises XPathException for it)
C1_ParentAxisNeverReturns == HasParentAxis => status # "returned"

\* a token of the query that is a descendant-axis wildcard step
IsWildcardToken(m) ==
    m[1] # <<>> /\ (m[2] = <<"*">> \/ StartsWithAt(m[2], 1, <<"*", "[">>))

HasWildcard == \E k \in DOMAIN tokens : IsWildcardToken(tokens[k])

\* the step the loop is about to run is a descendant-axis wildcard
WildcardNext == HasNext /\ IsWildcardToken(tokens[tag_i + 1])

HasMalformedBracket ==
    \/ Occurs(xpath, <<"[", "x", "]">>)
    \/ \E p \in 1..Len(xpath) :
          /\ StartsWithAt(xpath, p, <<"[", "1">>)
          /\ ~StartsWithAt(xpath, p, <<"[", "1", "]">>)

\* C3: a query with a malformed bracket never returns a result list: the
\* XPathException naming the fragment is always raised
C3_MalformedBracketNeverReturns == HasMalformedBracket => status # "returned"

\* the step run last was a tag step with index -1
MinusOneStep == last = "tag" /\ LastStep.index = <<0 - 1>>

\* the last match of one context, if the attribute filters accept it
LastIfAccepted(matches, st) ==
    IF /\ matches # <<>>
       /\ match_attributes(st.attributes, get_attributes(matches[Len(matches)]))
    THEN <<matches[Len(matches)]>> ELSE <<>>

RECURSIVE LastMatches(_, _)
\* for each context, the last element of its match list if the filters
\* accept it
LastMatches(ctxs, st) ==
    IF ctxs = <<>> THEN <<>>
    ELSE LastIfAccepted(StepMatches(Head(ctxs), st), st) \o LastMatches(Tail(ctxs), st)

\* the last element of a list, as a list
LastOf(r) == IF r = <<>> THEN <<>> ELSE <<r[Len(r)]>>

RECURSIVE LastOfNoIndex(_, _)
\* for each context, the last element of the result of the step evaluated
\* with no index
LastOfNoIndex(ctxs, st) ==
    IF ctxs = <<>> THEN <<>>
    ELSE LastOf(KeptFrom(StepMatches(Head(ctxs), st), 1, [st EXCEPT !.index = <<>>]))
         \o LastOfNoIndex(Tail(ctxs), st)

\* the contexts and the parent_attributes are those of the fragments sel
SelectedAre(sel) ==
    /\ contexts = [k \in DOMAIN sel |-> get_content(sel[k])]
    /\ parent_attributes = [k \in DOMAIN sel |-> get_attributes(sel[k])]

\* C5 as stated: a step with index -1 selects, for each context, the last
\* element of the result of the same step evaluated with no index
C5_MinusOneIsLastOfResult ==
    MinusOneStep => SelectedAre(LastOfNoIndex(prev_contexts, LastStep))

\* C5 amended: a step with index -1 selects, for each context, the last
\* element of the match list of the tag, and only if that element satisfies
\* the attribute filters of the step: the index is applied before the filters
C5_MinusOneIsLastMatch ==
    MinusOneStep => SelectedAre(LastMatches(prev_contexts, LastStep))

\* C5 witness: a step with index -1 and a filter selected a fragment
C5_Witness == MinusOneStep /\ LastStep.attributes # <<>> /\ contexts # <<>>

\* the step run last was a tbody step with zero matches
TbodyNoOp ==
    /\ last = "tag"
    /\ LastStep.tag = <<"t", "b", "o", "d", "y">>
    /\ KeptAll(prev_contexts, LastStep) = <<>>

\* C6: after a tbody step with zero matches the contexts are unchanged and
\* the remaining steps yield what they yield with the tbody step removed
C6_TbodyIsNoOp ==
    TbodyNoOp =>
        /\ contexts = prev_contexts
        /\ Run(tokens, tag_i, contexts, parent_attributes)
              = Run(tokens, tag_i, prev_contexts, prev_attributes)

\* position p of h lies inside tag markup: between a '<' and the first '>'
\* after it
InsideTag(h, p) ==
    \E i \in 1..p :
        /\ h[i] = "<"
        /\ \A k \in i..(p - 1) : h[k] # ">"
        /\ \E j \in p..Len(h) : h[j] = ">"

RECURSIVE OutsideFrom(_, _, _)
\* the characters of h at the positions p..q that lie outside tag markup
OutsideFrom(h, p, q) ==
    IF p > q THEN <<>>
    ELSE (IF InsideTag(h, p) THEN <<>> ELSE <<h[p]>>) \o OutsideFrom(h, p + 1, q)

\* the text of h: its characters outside tag markup, in order
TextOutsideTags(h) == OutsideFrom(h, 1, Len(h))

RECURSIVE IsSubsequence(_, _)
\* the characters of a occur in b, in order
IsSubsequence(a, b) ==
    IF a = <<>> THEN TRUE
    ELSE IF b = <<>> THEN FALSE
    ELSE IF Head(a) = Head(b) THEN IsSubsequence(Tail(a), Tail(b))
    ELSE IsSubsequence(a, Tail(b))

\* the end of the first tag of h that opens h, when h starts with text and
\* then a tag that is not a void tag: the position of its '>', or 0
FirstTagEnd(h, lt) ==
    IF lt = 0 \/ EmptyTagRegexEndAt(h, lt) # 0 THEN 0 ELSE IndexFrom(h, <<">">>, lt + 1)

\* the text between the first tag of h and the first closing tag after it:
\* the text of the first child element of h
FirstChildSpan(h, i, j) == IF i = 0 \/ j = 0 THEN <<>> ELSE OutsideFrom(h, i + 1, j - 1)

FirstChildFrom(h, i) == FirstChildSpan(h, i, IndexFrom(h, <<"<", "/">>, i + 1))

FirstChildText(h) == FirstChildFrom(h, FirstTagEnd(h, IndexFrom(h, <<"<">>, 1)))

---------------------------------------------------------------------------
(* Properties of find_children and find_descendants *)

\* item is an element that is not a void tag
IsElement(item) == item.tag # <<>> /\ ~item.void

\* fragment r has a void tag as its outer tag and holds an element of the
\* document
VoidHolds(r, items) ==
    /\ LowerStr(get_tag(r)) \in COMMON_EMPTY_TAGS
    /\ \E k \in DOMAIN items : IsElement(items[k]) /\ Occurs(r, items[k].html)

\* C4: a void tag of the set br, hr, img, meta, link, base, embed, param,
\* area, col, input is a depth-neutral leaf: no fragment returned has a void
\* tag as its outer tag and holds a following sibling element, and every
\* top-level <t> element after an unclosed void tag is returned as a
\* fragment of its own
C4_VoidTagsAreLeaves ==
    fc_status = "returned" =>
        /\ \A j \in DOMAIN results : ~VoidHolds(results[j], fc_items)
        /\ \A k \in DOMAIN fc_items :
              /\ IsElement(fc_items[k])
              /\ LowerStr(fc_items[k].tag) = LowerStr(fc_tag)
              /\ \E j \in 1..(k - 1) : fc_items[j].void
              => \E j \in DOMAIN results : results[j] = fc_items[k].html

RECURSIVE ExpectedChildren(_, _)
\* the top-level elements of the document whose tag is t, or all of them
\* for '*', in document order; an unclosed void tag is skipped, it is no
\* element with content
ExpectedChildren(items, t) ==
    IF items = <<>> THEN <<>>
    ELSE (IF /\ IsElement(Head(items))
             /\ (t = <<"*">> \/ LowerStr(t) = LowerStr(Head(items).tag))
          THEN <<Head(items).html>> ELSE <<>>)
         \o ExpectedChildren(Tail(items), t)

\* C8: find_children returns, in document order, exactly the top-level
\* elements whose outer tag name is t (all of them for '*'): no fragment of
\* another tag, no nested element, and no top-level <t> element omitted
C8_ChildrenAreTopLevel ==
    fc_fn = "find_children" /\ fc_status = "returned"
        => results = ExpectedChildren(fc_items, fc_tag)

---------------------------------------------------------------------------
(* Properties of match_attributes *)

MatchReturned == ma_result \in {"True", "False"}

\* every filter names an attribute present
AllPresent ==
    \A k \in DOMAIN desired_attributes :
        desired_attributes[k][1] \in DOMAIN available_attributes

\* the pattern matches the whole value, from its start to its end
FullMatch(pattern, value) == ReMatchFrom(pattern, 1, value, 1)

\* the pattern matches an end of the value: it is anchored at the end only
EndMatch(pattern, value) ==
    \E j \in 1..(Len(value) + 1) : ReMatchFrom(pattern, 1, value, j)

\* C9 as stated: match_attributes is true exactly when every filter names
\* an attribute present whose value the pattern, anchored only at the end,
\* matches case-insensitively
C9_MatchesAtEndOnly ==
    MatchReturned =>
        (ma_result = "True" <=>
            /\ AllPresent
            /\ \A k \in DOMAIN desired_attributes :
                  EndMatch(desired_attributes[k][2],
                           available_attributes[desired_attributes[k][1]]))

\* C9 amended: match_attributes is true exactly when every filter names an
\* attribute present whose whole value the pattern matches,
\* case-insensitively: re.match anchors the pattern at the start of the
\* value and the appended '$' at its end.  With no filters it is true, and a
\* filter on an absent attribute makes it false
C9_MatchesWholeValue ==
    MatchReturned =>
        /\ ma_result = "True" <=>
              /\ AllPresent
              /\ \A k \in DOMAIN desired_attributes :
                    FullMatch(desired_attributes[k][2],
                              available_attributes[desired_attributes[k][1]])
        /\ desired_attributes = <<>> => ma_result = "True"
        /\ ~AllPresent => ma_result = "False"

\* C9 witness: match_attributes returned False for a filter whose pattern
\* matches an end of the value but not the whole value
C9_Witness ==
    /\ ma_result = "False"
    /\ AllPresent
    /\ \A k \in DOMAIN desired_attributes :
          EndMatch(desired_attributes[k][2],
                   available_attributes[desired_attributes[k][1]])

---------------------------------------------------------------------------
(* Properties of get_links *)

\* the host of an absolute url: what lies between its '://' and the first
\* '/' after it
HostOf(u) ==
    LET from == IndexFrom(u, <<":", "/", "/">>, 1) + 3
        slash == IndexFrom(u, <<"/">>, from)
    IN  SubSeq(u, from, IF slash = 0 THEN Len(u) ELSE slash - 1)

\* the positions of the dots of a host
Dots(h) == {p \in 1..Len(h) : h[p] = "."}

\* the last two labels of a host name
LastTwoLabels(h) ==
    IF Cardinality(Dots(h)) < 2 THEN h
    ELSE Drop(h, Max(Dots(h) \ {Max(Dots(h))}))

\* the registrable domain of an absolute url whose host is an IP address or
\* a name under a one-label public suffix (com, org)
RegistrableDomain(u) ==
    IF \A k \in DOMAIN HostOf(u) : IsDigit(HostOf(u)[k]) \/ HostOf(u)[k] = "."
    THEN HostOf(u)
    ELSE LowerStr(LastTwoLabels(HostOf(u)))

\* the link is absolute with scheme http or https
IsAbsoluteHttp(link) ==
    \/ StartsWithAt(link, 1, <<"h","t","t","p",":","/","/">>)
    \/ StartsWithAt(link, 1, <<"h","t","t","p","s",":","/","/">>)

\* C10: with a base url, get_links returns with local=False no link of the
\* registrable domain of the base, and with external=False only links of
\* that domain; every link returned is absolute, without fragment, and of
\* scheme http or https
C10_LinksRespectDomain ==
    gl_status = "returned" /\ url # None =>
        \A k \in DOMAIN links :
            /\ ~local => RegistrableDomain(links[k]) # RegistrableDomain(url)
            /\ ~external => RegistrableDomain(links[k]) = RegistrableDomain(url)
            /\ IsAbsoluteHttp(links[k])
            /\ \A i \in DOMAIN links[k] : links[k][i] # "#"

\* C11: get_links never raises: a candidate link whose normalization fails
\* is omitted from the result and the candidates after it are still
\* processed, so that every call runs to its return
C11_LinksNeverRaise ==
    /\ gl_status # "raised"
    /\ gl_status = "returned" => gl_i = Len(candidates)

---------------------------------------------------------------------------
(* Properties of xpath_iter *)

\* the filters a segment is written with, in bracket order
RECURSIVE FiltersOf(_)
FiltersOf(brackets) ==
    IF brackets = <<>> THEN <<>>
    ELSE (IF Head(brackets).kind = "filter"
          THEN << <<Head(brackets).name, Head(brackets).value>> >> ELSE <<>>)
         \o FiltersOf(Tail(brackets))

\* the index a segment is written with: that of its integer bracket
IndexOf(brackets) ==
    IF \E k \in DOMAIN brackets : brackets[k].kind = "index"
    THEN <<brackets[CHOOSE k \in DOMAIN brackets : brackets[k].kind = "index"].n>>
    ELSE <<>>

\* the step a segment stands for
ExpectedStep(g) ==
    [raised |-> FALSE,
     separator |-> IF g.axis = "child" THEN <<>> ELSE <<"/">>,
     tag |-> g.tag,
     index |-> IndexOf(g.brackets),
     attributes |-> FiltersOf(g.brackets)]

\* C12: when xpath_iter is exhausted it has yielded one step per path
\* segment of the query, in query order: the segment's axis, tag, index
\* (the integer of its integer bracket, or None) and filters (the lower-cased
\* name and unquoted value of its @name=value brackets, in bracket order)
C12_OneStepPerSegment ==
    xi_status = "exhausted" =>
        steps = [k \in DOMAIN xi_segments |-> ExpectedStep(xi_segments[k])]

---------------------------------------------------------------------------
(* Properties of the working sequences of search *)

\* the step takes the tag branch of the loop body or raises in it
IsTagStep(st) ==
    /\ ~st.raised
    /\ st.tag # <<".", ".">>
    /\ st.tag # <<"t", "e", "x", "t", "(", ")">>
    /\ ~(st.tag # <<>> /\ st.tag[1] = "@")

\* one of the first n steps of the query is a tag step
TagStepAmong(n) == \E k \in 1..n : IsTagStep(StepOf(tokens[k]))

\* the values an attribute step yields for the attribute sets attrs
ValuesYielded(st, attrs) ==
    [k \in DOMAIN attrs |-> DictGet(attrs[k], LowerStr(Tail(st.tag)))]

\* C13: at every step boundary after the first tag step, contexts and
\* parent_attributes have equal length, and an attribute step has yielded
\* exactly one value per context of the preceding step: the value of the
\* attribute in the attribute set of that context, '' when it is absent
C13_ParallelSequences ==
    /\ (status \in {"running", "returned"} /\ TagStepAmong(tag_i))
          => Len(contexts) = Len(parent_attributes)
    /\ (status \in {"running", "returned"} /\ last = "attribute"
            /\ TagStepAmong(tag_i - 1))
          => /\ Len(contexts) = Len(prev_contexts)
             /\ Len(prev_attributes) = Len(prev_contexts)
             /\ contexts = ValuesYielded(StepOf(tokens[tag_i]), prev_attributes)

---------------------------------------------------------------------------
(* Properties of split_tag *)

\* the name the text starts with
FirstName == LowerStr(sp_pieces[1].name)

\* the depth after the first k pieces, counting the tags named exactly as
\* the first: +1 for an opening form, -1 for a closing form
DepthAfter(k) ==
    Cardinality({j \in 1..k : /\ LowerStr(sp_pieces[j].name) = FirstName
                              /\ sp_pieces[j].form = "open"})
      - Cardinality({j \in 1..k : /\ LowerStr(sp_pieces[j].name) = FirstName
                                  /\ sp_pieces[j].form = "close"})

\* the closing tags at which the depth is 0
BalancingCloses ==
    {k \in DOMAIN sp_pieces :
        /\ LowerStr(sp_pieces[k].name) = FirstName
        /\ sp_pieces[k].form = "close"
        /\ DepthAfter(k) = 0}

\* C14: for a text that starts with an opening tag <t ...> and has a
\* balancing close, split_tag returns (fragment, remainder), the fragment
\* ending at the end of the first closing tag at which the depth returns to
\* 0 and the remainder being the rest of the text, where the depth counts
\* only the tags named exactly t, whatever their case
C14_SplitsAtBalancingClose ==
    (sp_status = "returned" /\ BalancingCloses # {}) =>
        sp_result = <<DocOf(SubSeq(sp_pieces, 1, Min(BalancingCloses))),
                      DocOf(SubSeq(sp_pieces, Min(BalancingCloses) + 1,
                                   Len(sp_pieces)))>>

---------------------------------------------------------------------------
(* Properties of find_descendants *)

\* C15: every fragment find_descendants has collected for a tag t other
\* than the wildcard has the outer tag name t, whatever its case: an
\* element whose name merely starts with t is not among them
C15_DescendantsAreNamedT ==
    (fc_fn = "find_descendants" /\ fc_tag # <<"*">>) =>
        \A k \in DOMAIN results :
            LowerStr(get_tag(results[k])) = LowerStr(fc_tag)

---------------------------------------------------------------------------
(* Termination of find_children and jump_next_tag *)

\* C16: find_children terminates on every text, well formed or not: a pass
\* of its loop that does not stop the scan continues on a remainder
\* strictly shorter than the text it started from, each pass of the skip
\* loop of jump_next_tag strictly shortens its text, and the call returns
C16_ScanTerminates ==
    /\ [][fc_status' = "running"
             => IF sp_status = "returned" THEN Len(fc_html') < Len(fc_html)
                ELSE Len(fc_html') <= Len(fc_html)]_vars
    /\ [][(jn_status = "running" /\ jn_status' = "running")
             => Len(jn_html') < Len(jn_html)]_vars
    /\ <>(fc_status = "returned")

\* find_children has returned children found in a text with a tag that is
\* not closed
C16_Witness ==
    /\ fc_fn = "find_children"
    /\ fc_status = "returned"
    /\ jn_status = "idle"
    /\ results # <<>>
    /\ \E k \in DOMAIN fc_items : fc_items[k] = PieceBroken

=============================================================================
